---- MODULE Spec2Model ----
(***************************************************************************)
(* Release ingestion and reconciliation of the manga tracker:              *)
(*   - the feed ingest processor (workers/processors/feed-ingest)          *)
(*   - the on-demand sync of the chapter listing route                     *)
(*   - the DLQ alerting service (lib/monitoring)                           *)
(* Each subsystem has its own specification over the shared variables.     *)
(***************************************************************************)
EXTENDS Integers, Sequences, FiniteSets, TLC

\* ------------------------------------------------------------------ bounds
\* Timestamps (new Date() of a worker, created_at of a release, a watermark)
\* are at most MaxTime.
MaxTime == 3
\* The upstream feeds return at most MaxFetch observations in total to the
\* runs of one behaviour.
MaxFetch == 2

\* ---------------------------------------------------------- program values
\* last_chapter_released_at IS NULL
Null == -1
\* '1970-01-01'::timestamptz, the COALESCE floor of the watermark update
Epoch == 0
BATCH_SIZE == 50
MAX_EVENTS_PER_RUN == 100
\* Math.min(limit, 100) in the MangaDex adapter call
MangaDexMaxLimit == 100

Min(a, b) == IF a < b THEN a ELSE b

SetMax(S) == CHOOSE x \in S : \A y \in S : y <= x

\* ------------------------------------------------------------ ingest domain
\* The calls of processFeedIngest, named in the order they start.
RunIds == {"r1", "r2"}
StartsBefore(q, r) == q = "r1" /\ r = "r2"
Series == {"s1", "s2"}
Sources == {"mangadex", "mangaupdates", "unknown"}

\* series.mangadex_id (unique)
MangadexIdOf(s) == IF s = "s1" THEN "m1" ELSE IF s = "s2" THEN "m2" ELSE "m3"

\* What MangaDex's latest-chapters feed can hold: chapter id, the id of the
\* manga relationship ("none": no such relationship), attributes.chapter
\* ("": null).
MangaDexFeed ==
    << [id |-> "c1", ref |-> "m1", chapter |-> "1", created_at |-> 0],
       [id |-> "c2", ref |-> "m2", chapter |-> "", created_at |-> 0],
       [id |-> "c3", ref |-> "mX", chapter |-> "1", created_at |-> 0],
       [id |-> "c4", ref |-> "none", chapter |-> "2", created_at |-> 0] >>

\* The mangaUpdatesRelease rows of the last 24 hours with a series_id,
\* newest first (orderBy created_at desc).
MangaUpdatesReleases ==
    << [id |-> "u2", ref |-> "s1", chapter |-> "2", created_at |-> 2],
       [id |-> "u1", ref |-> "s1", chapter |-> "1", created_at |-> 1] >>

\* new Date() on the worker of a run: the workers' clocks are not
\* synchronised, and differ by at most one tick.
ClockReadings == (MaxTime - 1)..MaxTime
PriorTimes == {Null, 2}

VARIABLES
    series,       \* table series: [last, deleted] per id
    events,       \* table chapter_availability_events
    ingestRuns,   \* table feed_ingest_runs, by run id
    run,          \* the processFeedIngest calls
    prior,        \* each series' watermark before any run (history)
    advances      \* the candidates of the watermark updates executed, per
                  \* series (history)

ingestVars == <<series, events, ingestRuns, run, prior, advances>>

\* The on-demand sync of the chapter listing route
VARIABLES
    locks,        \* pg advisory locks: per key, the session holding it and
                  \* how often it holds it
    chapters,     \* table chapters with the number of chapter_sources of each
    bindings,     \* table series_sources
    sync,         \* the performOnDemandSync calls
    attach        \* a manual source attach (POST /api/series/[id]/sources)

syncVars == <<locks, chapters, bindings, sync, attach>>

\* The DLQ alerting service
VARIABLES
    clock,        \* Date.now() of the process, with the number of times it
                  \* has advanced
    handlers,     \* DLQAlertingService.handlers
    lastAlertTime,\* DLQAlertingService.lastAlertTime (0: no entry)
    alertCall,    \* the checkDLQThresholds and sendAlert calls
    dispatched,   \* the alerts that passed the cooldown test (history)
    registrations \* the registerHandler calls made and the calls of the
                  \* unregister function each returned

alertVars == <<clock, handlers, lastAlertTime, alertCall, dispatched, registrations>>

\* The parts looked at on their own
VARIABLES
    batch,        \* the batch loop of one ingest run
    rank,         \* one ranking of the sources of a chapter listing
    rate          \* the in-memory rate limit store and its clock

VARIABLES
    cache,        \* the in-memory fallback cache and its clock
    listing,      \* one request of the chapter listing
    bulk          \* the library entries, activities and xp of one user

moreVars == <<cache, listing, bulk>>
auxVars == <<batch, rank, rate, moreVars>>

vars == <<ingestVars, syncVars, alertVars, auxVars>>

\* ------------------------------------------------------------------ helpers
ZeroResult ==
    [events_fetched |-> 0, events_created |-> 0, events_skipped |-> 0,
     series_updated |-> 0, errors |-> 0, rate_limit_hits |-> 0]

NoRow == [status |-> "absent"]

IdleRun ==
    [pc |-> "idle", source |-> "mangadex", items |-> <<>>,
     res |-> ZeroResult, runId |-> "", paused |-> FALSE, raised |-> FALSE,
     \* history: the queue answer seen, the runs finished before this one
     \* started, the adapter calls made, a 429 from the adapter
     sawOverload |-> FALSE, startedAfter |-> {}, fetchCalls |-> 0,
     throttled |-> FALSE,
     \* the error thrown out of the ingest ("": none), and (history) a fetch
     \* step that failed with an error that is no 429
     err |-> "", fetchFailed |-> FALSE]

\* All subsequences of s (order kept) of length at most n.
RECURSIVE SubSeqs(_, _)
SubSeqs(s, n) ==
    IF s = <<>> \/ n = 0 THEN {<<>>}
    ELSE SubSeqs(Tail(s), n)
         \cup {<<Head(s)>> \o t : t \in SubSeqs(Tail(s), n - 1)}

\* checkQueueHealth: healthy: !isOverloaded
HealthyAlways(isOverloaded) == TRUE
Healthy(isOverloaded) == ~isOverloaded

\* chapter.attributes.chapter || '0' and release.chapter || '0'
ChapterNumber(o) == IF o.chapter = "" THEN "0" ELSE o.chapter

\* prisma.series.findUnique({ where: { mangadex_id } })
FindSeriesOrFirst(m) ==
    IF \E s \in Series : MangadexIdOf(s) = m
    THEN CHOOSE s \in Series : MangadexIdOf(s) = m
    ELSE "s1"
FindSeriesByMangadexId(m) ==
    IF \E s \in Series : MangadexIdOf(s) = m
    THEN CHOOSE s \in Series : MangadexIdOf(s) = m
    ELSE "none"

EventKey(e) == <<e.series_id, e.chapter_number, e.source_name, e.external_event_id>>

UniqueConstraintError == "Unique constraint failed on the fields"
StorageError == "Can't reach database server"

\* The (series_id, chapter_number, source_name, external_event_id) unique
\* index: an insert of a present key is refused.
KeyPresent(row) == \E e \in events : EventKey(e) = EventKey(row)

\* prisma.chapterAvailabilityEvent.create: "ok", or the error it throws.
\* down: the storage layer fails this statement.
CreateOutcomeNoIndex(row, down) == IF down THEN StorageError ELSE "ok"
CreateOutcome(row, down) ==
    IF down THEN StorageError
    ELSE IF KeyPresent(row) THEN UniqueConstraintError
    ELSE "ok"

\* err instanceof Error && err.message.includes('Unique constraint')
IsDuplicateNever(err) == FALSE
IsDuplicateAlways(err) == TRUE
IsDuplicate(err) == err = UniqueConstraintError

RateLimitError == "MangaDex API error: 429"
NetworkError == "fetch failed"
\* new Error(`Unknown feed source: ${source}`)
UnknownSourceError == "Unknown feed source"

\* completeIngestRun: status: error ? 'failed' : 'completed'
FinalStatusRunning(error) == "running"
FinalStatus(error) == IF error # "" THEN "failed" ELSE "completed"

\* err instanceof Error && err.message.includes('429')
IsRateLimitNever(err) == FALSE
IsRateLimit(err) == err = RateLimitError

\* GREATEST(COALESCE(last_chapter_released_at, '1970-01-01'), discoveredAt)
GreatestOverwrite(last, discoveredAt) == discoveredAt
Least(last, discoveredAt) ==
    IF last = Null \/ discoveredAt < last THEN discoveredAt ELSE last
Greatest(last, discoveredAt) ==
    LET floor == IF last = Null THEN Epoch ELSE last
    IN  IF discoveredAt > floor THEN discoveredAt ELSE floor

\* UPDATE series SET last_chapter_released_at = GREATEST(...)
\*  WHERE id = sid AND deleted_at IS NULL, as one statement
UpdatedSeriesAnyRow(sid, discoveredAt) ==
    [series EXCEPT ![sid].last = Greatest(series[sid].last, discoveredAt)]
UpdatedSeries(sid, discoveredAt) ==
    IF series[sid].deleted THEN series
    ELSE [series EXCEPT ![sid].last = Greatest(series[sid].last, discoveredAt)]

\* !series.last_chapter_released_at || discoveredAt > series.last_chapter_released_at
ShouldUpdateNever(snap, discoveredAt) == FALSE
ShouldUpdateNoNull(snap, discoveredAt) == snap # Null /\ discoveredAt > snap
ShouldUpdate(snap, discoveredAt) == snap = Null \/ discoveredAt > snap

Bump(res, field) == [res EXCEPT ![field] = @ + 1]

NewItem(o, snap) ==
    [obs |-> o, pc |-> "find", sid |-> "none", snap |-> snap, disc |-> 0,
     tags |-> {}, fault |-> FALSE]

\* The observation's callback has returned: its counter is recorded (tag),
\* with whether the storage layer failed it (down); its locals are gone.
Finished(it, tag, down) ==
    [it EXCEPT !.pc = "done", !.tags = @ \cup {tag}, !.fault = @ \/ down,
               !.snap = Null, !.disc = 0]

\* Batch of the i-th fetched observation (0-based), BATCH_SIZE per batch.
BatchOf(i) == (i - 1) \div BATCH_SIZE

ItemDone(r, i) == run[r].items[i].pc = "done"

\* MangaDex: Promise.all over one batch, the batches one after the other.
MangaDexTurn(r, i) ==
    /\ run[r].pc = "batch"
    /\ run[r].source = "mangadex"
    /\ i \in 1..Len(run[r].items)
    /\ \A j \in 1..Len(run[r].items) : BatchOf(j) < BatchOf(i) => ItemDone(r, j)

\* MangaUpdates: a plain for loop, one release after the other.
MangaUpdatesTurn(r, i) ==
    /\ run[r].pc = "batch"
    /\ run[r].source = "mangaupdates"
    /\ i \in 1..Len(run[r].items)
    /\ \A j \in 1..(i - 1) : ItemDone(r, j)

\* What the feeds may still return within MaxFetch.
FetchBudget ==
    LET RECURSIVE Total(_)
        Total(R) == IF R = {} THEN 0
                    ELSE LET r == CHOOSE x \in R : TRUE
                         IN  Len(run[r].items) + Total(R \ {r})
    IN  MaxFetch - Total(RunIds)

\* -------------------------------------------------------------------- Init
\* s1 with any watermark, soft-deleted or not; s2 a live series without one.
IngestInit ==
    /\ series \in [Series -> [last : PriorTimes, deleted : BOOLEAN]]
    /\ series["s2"] = [last |-> Null, deleted |-> FALSE]
    /\ prior = [s \in Series |-> series[s].last]
    /\ advances = [s \in Series |-> {}]
    /\ events = {}
    /\ ingestRuns = [r \in RunIds |-> NoRow]
    /\ run = [r \in RunIds |-> IdleRun]

\* ----------------------------------------------------------------- actions
\* processFeedIngest up to its backpressure gate: checkQueueHealth, and the
\* paused result when the queues are overloaded.
\* isOverloaded: what getTotalQueueDepth answers at this moment.
CheckQueueHealth(r, src, isOverloaded) ==
    /\ run[r].pc = "idle"
    /\ \A q \in RunIds : StartsBefore(q, r) => run[q].pc # "idle"
    /\ LET started == [run[r] EXCEPT
                          !.source = src, !.sawOverload = isOverloaded,
                          !.startedAfter = {q \in RunIds : run[q].pc = "done"}]
       IN  run' = [run EXCEPT ![r] =
                     IF ~Healthy(isOverloaded)
                     THEN [started EXCEPT !.pc = "done", !.paused = TRUE]
                     ELSE [started EXCEPT !.pc = "create"]]
    /\ UNCHANGED <<series, events, ingestRuns, prior, advances, syncVars, alertVars, auxVars>>

\* createIngestRun: one row in status running.
CreateIngestRun(r) ==
    /\ run[r].pc = "create"
    /\ ingestRuns' = [ingestRuns EXCEPT ![r] =
                        [status |-> "running", res |-> ZeroResult,
                         error_message |-> "", updates |-> 0]]
    /\ run' = [run EXCEPT ![r].pc = "fetch", ![r].runId = r]
    /\ UNCHANGED <<series, events, prior, advances, syncVars, alertVars, auxVars>>

\* mangadexClient.fetchLatestChapters: the chapters, or an error (a 429 or
\* another one) and the catch block around the ingest.
FetchLatestChapters(r, lim) ==
    /\ run[r].pc = "fetch"
    /\ run[r].source = "mangadex"
    /\ \/ \E data \in SubSeqs(MangaDexFeed,
                              Min(Min(lim, MangaDexMaxLimit), FetchBudget)) :
            run' = [run EXCEPT
                      ![r].pc = "batch",
                      ![r].fetchCalls = @ + 1,
                      ![r].res.events_fetched = Len(data),
                      ![r].items = [i \in 1..Len(data) |-> NewItem(data[i], Null)]]
       \/ \E err \in {RateLimitError, NetworkError} :
            run' = [run EXCEPT
                      ![r].fetchCalls = @ + 1,
                      ![r].throttled = (err = RateLimitError),
                      ![r].fetchFailed = (err # RateLimitError),
                      ![r].err = IF IsRateLimit(err) THEN "" ELSE err,
                      ![r].pc = IF IsRateLimit(err) THEN "finalize" ELSE "failing",
                      ![r].res = IF IsRateLimit(err) THEN Bump(@, "rate_limit_hits")
                                 ELSE @]
    /\ UNCHANGED <<series, events, ingestRuns, prior, advances, syncVars, alertVars, auxVars>>

\* prisma.mangaUpdatesRelease.findMany with each release's series
\* (id, last_chapter_released_at) as read now; a failure is counted, not raised.
FindRecentReleases(r, lim) ==
    /\ run[r].pc = "fetch"
    /\ run[r].source = "mangaupdates"
    /\ \/ \E data \in SubSeqs(MangaUpdatesReleases, Min(lim, FetchBudget)) :
            run' = [run EXCEPT
                      ![r].pc = "batch",
                      ![r].fetchCalls = @ + 1,
                      ![r].res.events_fetched = Len(data),
                      ![r].items =
                          [i \in 1..Len(data) |->
                              [NewItem(data[i], series[data[i].ref].last)
                                 EXCEPT !.pc = "create", !.sid = data[i].ref,
                                        !.disc = data[i].created_at]]]
       \/ run' = [run EXCEPT
                    ![r].pc = "finalize",
                    ![r].fetchCalls = @ + 1,
                    ![r].fetchFailed = TRUE,
                    ![r].res = Bump(@, "errors")]
    /\ UNCHANGED <<series, events, ingestRuns, prior, advances, syncVars, alertVars, auxVars>>

\* switch (source) default: throw new Error('Unknown feed source')
UnknownSource(r) ==
    /\ run[r].pc = "fetch"
    /\ run[r].source = "unknown"
    /\ run' = [run EXCEPT ![r].pc = "failing", ![r].err = UnknownSourceError]
    /\ UNCHANGED <<series, events, ingestRuns, prior, advances, syncVars, alertVars, auxVars>>

\* One chapter of the batch up to its series lookup: no manga relationship or
\* no tracked series is a skip, a failing lookup an error; otherwise
\* discoveredAt = new Date() and the insert is issued.
FindSeries(r, i) ==
    /\ MangaDexTurn(r, i)
    /\ run[r].items[i].pc = "find"
    /\ LET it == run[r].items[i]
           sid == FindSeriesByMangadexId(it.obs.ref)
       IN  \/ /\ it.obs.ref = "none" \/ sid = "none"
              /\ run' = [run EXCEPT
                           ![r].items[i] = Finished(it, "skipped", FALSE),
                           ![r].res = Bump(@, "events_skipped")]
           \/ /\ it.obs.ref # "none" /\ sid # "none"
              /\ \E t \in ClockReadings :
                   run' = [run EXCEPT
                             ![r].items[i] = [it EXCEPT !.pc = "create", !.sid = sid,
                                                        !.snap = series[sid].last,
                                                        !.disc = t]]
           \/ /\ it.obs.ref # "none"
              /\ run' = [run EXCEPT
                           ![r].items[i] = Finished(it, "error", TRUE),
                           ![r].res = Bump(@, "errors")]
    /\ UNCHANGED <<series, events, ingestRuns, prior, advances, syncVars, alertVars, auxVars>>

EventRow(r, i) ==
    LET it == run[r].items[i]
    IN  [series_id |-> it.sid,
         chapter_number |-> ChapterNumber(it.obs),
         source_name |-> run[r].source,
         external_event_id |-> it.obs.id,
         discovered_at |-> it.disc]

\* prisma.chapterAvailabilityEvent.create and what the code does with its
\* outcome: events_created++ and the shouldUpdate test, or the catch block.
CreateEvent(r, i) ==
    /\ MangaDexTurn(r, i) \/ MangaUpdatesTurn(r, i)
    /\ run[r].items[i].pc = "create"
    /\ \E down \in BOOLEAN :
         LET it == run[r].items[i]
             row == EventRow(r, i)
             out == CreateOutcome(row, down)
         IN  IF out = "ok"
             THEN /\ events' = events \cup {row}
                  /\ run' = [run EXCEPT
                               ![r].items[i] =
                                   IF ShouldUpdate(it.snap, it.disc)
                                   THEN [it EXCEPT !.pc = "update",
                                                   !.tags = @ \cup {"created"}]
                                   ELSE Finished(it, "created", FALSE),
                               ![r].res = Bump(@, "events_created")]
             ELSE /\ events' = events
                  /\ run' = [run EXCEPT
                               ![r].items[i] =
                                   Finished(it, IF IsDuplicate(out) THEN "skipped"
                                                ELSE "error", down),
                               ![r].res = Bump(@, IF IsDuplicate(out)
                                                  THEN "events_skipped"
                                                  ELSE "errors")]
    /\ UNCHANGED <<series, ingestRuns, prior, advances, syncVars, alertVars, auxVars>>

\* The raw UPDATE of the watermark and series_updated++, or the catch block
\* when the statement fails.
AdvanceWatermark(r, i) ==
    /\ MangaDexTurn(r, i) \/ MangaUpdatesTurn(r, i)
    /\ run[r].items[i].pc = "update"
    /\ LET it == run[r].items[i]
       IN  \/ /\ series' = UpdatedSeries(it.sid, it.disc)
              /\ advances' = [advances EXCEPT ![it.sid] = @ \cup {it.disc}]
              /\ run' = [run EXCEPT
                           ![r].items[i] = Finished(it, "updated", FALSE),
                           ![r].res = Bump(@, "series_updated")]
           \/ /\ UNCHANGED <<series, advances>>
              /\ run' = [run EXCEPT
                           ![r].items[i] = Finished(it, "error", TRUE),
                           ![r].res = Bump(@, "errors")]
    /\ UNCHANGED <<events, ingestRuns, prior, syncVars, alertVars, auxVars>>

\* The ingest function returns once every observation is processed.
IngestReturns(r) ==
    /\ run[r].pc = "batch"
    /\ \A i \in 1..Len(run[r].items) : ItemDone(r, i)
    /\ run' = [run EXCEPT ![r].pc = "finalize"]
    /\ UNCHANGED <<series, events, ingestRuns, prior, advances, syncVars, alertVars, auxVars>>

\* completeIngestRun(runId, finalResult): status completed, the counts.
CompleteIngestRun(r) ==
    /\ run[r].pc = "finalize"
    /\ ingestRuns' = [ingestRuns EXCEPT ![r] =
                        [status |-> FinalStatus(""), res |-> run[r].res,
                         error_message |-> "", updates |-> @.updates + 1]]
    /\ run' = [run EXCEPT ![r].pc = "done"]
    /\ UNCHANGED <<series, events, prior, advances, syncVars, alertVars, auxVars>>

\* catch (error): completeIngestRun(runId, { errors: 1 }, errorMessage); throw
FailIngestRun(r) ==
    /\ run[r].pc = "failing"
    /\ ingestRuns' = [ingestRuns EXCEPT ![r] =
                        [status |-> FinalStatus(run[r].err),
                         res |-> [ZeroResult EXCEPT !.errors = 1],
                         error_message |-> run[r].err, updates |-> @.updates + 1]]
    /\ run' = [run EXCEPT ![r].pc = "done", ![r].raised = TRUE]
    /\ UNCHANGED <<series, events, prior, advances, syncVars, alertVars, auxVars>>

\* job.data.limit: given, or the default MAX_EVENTS_PER_RUN
Limits == {1, MAX_EVENTS_PER_RUN}

IngestNext ==
    \/ \E r \in RunIds, src \in Sources, isOverloaded \in BOOLEAN :
          CheckQueueHealth(r, src, isOverloaded)
    \/ \E r \in RunIds : CreateIngestRun(r)
    \/ \E r \in RunIds, lim \in Limits : FetchLatestChapters(r, lim)
    \/ \E r \in RunIds, lim \in Limits : FindRecentReleases(r, lim)
    \/ \E r \in RunIds : UnknownSource(r)
    \/ \E r \in RunIds, i \in 1..MaxFetch : FindSeries(r, i)
    \/ \E r \in RunIds, i \in 1..MaxFetch : CreateEvent(r, i)
    \/ \E r \in RunIds, i \in 1..MaxFetch : AdvanceWatermark(r, i)
    \/ \E r \in RunIds : IngestReturns(r)
    \/ \E r \in RunIds : CompleteIngestRun(r)
    \/ \E r \in RunIds : FailIngestRun(r)

\* =========================================================== on-demand sync
\* performOnDemandSync of the chapter listing route.
\* The calls of performOnDemandSync, named in the order they start.
SyncIds == {"p1", "p2"}
SyncStartsBefore(q, p) == q = "p1" /\ p = "p2"

\* The database sessions of the prisma connection pool: a $queryRaw outside a
\* transaction runs on whichever connection the pool hands out.
Conns == {"k1", "k2"}

\* parseInt(seriesId.replace(/-/g, '').substring(0, 8), 16)
LockId(seriesId) == IF seriesId = "s2" THEN 2 ELSE 1
\* Two series whose ids start with the same eight hex digits
CollidingSeries == {"s1", "s3"}
LockIds == {LockId(x) : x \in Series}

Free == [holder |-> "none", count |-> 0]

\* SELECT pg_try_advisory_lock(key) in session c: a session-level lock, which
\* the session holding it may take again.
PgTryAdvisoryLockGrants(key, c) == locks[key].holder \in {"none", c}
PgTryAdvisoryLock(key, c) ==
    [locks EXCEPT ![key] = [holder |-> c, count |-> @.count + 1]]

\* SELECT pg_advisory_unlock(key) in session c: releases one hold of this
\* session; in a session that does not hold the lock it releases nothing
\* (false and a warning, not an error).
PgAdvisoryUnlock(key, c) ==
    IF locks[key].holder # c THEN locks
    ELSE IF locks[key].count = 1 THEN [locks EXCEPT ![key] = Free]
    ELSE [locks EXCEPT ![key].count = @ - 1]

DummyTitles == {"The Beginning", "The Journey", "New Discovery"}

Chapter(sid, no, title, nsrc) ==
    [series_id |-> sid, no |-> no, title |-> title, deleted |-> FALSE,
     sources |-> nsrc]

\* What a series may hold before a sync: nothing, the three seeded
\* placeholder chapters, a chapter without chapter_sources, a synced chapter.
SeedSets(sid) ==
    { {},
      {Chapter(sid, 1, "The Beginning", 1), Chapter(sid, 2, "The Journey", 1),
       Chapter(sid, 3, "New Discovery", 1)},
      {Chapter(sid, 1, "Chapter 1", 0)},
      {Chapter(sid, 1, "Chapter 1", 1)} }

\* syncSource undefined
NoBinding ==
    [id |-> "none", series_id |-> "none", source_name |-> "none", source_id |-> "none"]

\* A series_sources row created by call `by` (its id)
CreatedBinding(by, sid, sourceId) ==
    [id |-> by, series_id |-> sid, source_name |-> "mangadex", source_id |-> sourceId]

MangadexBinding(sid) == CreatedBinding("seed", sid, MangadexIdOf(sid))

\* What scrapeSeries may return: the chapter numbers of the source.
ScrapeResults == {{}, {1}}

IdleSync ==
    [pc |-> "idle", sid |-> "none", currentCount |-> 0, sourceCount |-> 0,
     syncSource |-> NoBinding, scraped |-> {}, failed |-> FALSE, found |-> FALSE,
     \* history: whether another call for the series was between its acquire
     \* and its unlock when this call asked for the lock, the scrapeSeries and
     \* syncChapters calls made, an error raised to the caller
     contended |-> FALSE, scrapes |-> 0, syncs |-> 0, raised |-> FALSE,
     \* history: the lock was granted, the pg_advisory_unlock queries issued,
     \* an unlock query that failed
     acquired |-> FALSE, unlocks |-> 0, unlockFailed |-> FALSE,
     \* history: another call had completed a sync of the series when this
     \* call was granted the lock
     afterSync |-> FALSE,
     \* history: the insert of its upsert met the unique index
     conflict |-> FALSE,
     \* history: a call for another series with the same lock key was between
     \* its acquire and its unlock when this call asked for the lock
     collided |-> FALSE]

\* Between a successful pg_try_advisory_lock and the pg_advisory_unlock.
\* The attach request before it is made
IdleAttach ==
    [pc |-> "idle", sid |-> "none", source_name |-> "none", found |-> FALSE,
     failed |-> FALSE,
     \* history: its insert met the unique index
     conflict |-> FALSE]

LockedPcs ==
    {"counts", "series", "upsert", "upsertWrite", "decide", "scrape", "sync", "unlock"}
InLockedSection(p) == sync[p].pc \in LockedPcs

SyncInit ==
    /\ locks = [k \in LockIds |-> Free]
    /\ \E seed \in SeedSets("s1") : chapters = seed
    /\ \E b \in SUBSET {MangadexBinding("s1")} : bindings = b \cup {MangadexBinding("s2")}
    /\ sync = [p \in SyncIds |-> IdleSync]
    /\ attach = IdleAttach

\* currentCount: chapters of the series that are not deleted
CurrentCount(sid) ==
    Cardinality({c \in chapters : c.series_id = sid /\ ~c.deleted})

\* sourceCount: chapter_sources of those chapters
RECURSIVE SumSources(_)
SumSources(cs) ==
    IF cs = {} THEN 0
    ELSE LET c == CHOOSE x \in cs : TRUE IN c.sources + SumSources(cs \ {c})

SourceCount(sid) == SumSources({c \in chapters : c.series_id = sid /\ ~c.deleted})

\* series.sources.find(s => s.source_name === 'mangadex') || series.sources[0]
SyncSourceOf(sid) ==
    LET own == {b \in bindings : b.series_id = sid}
        md  == {b \in own : b.source_name = "mangadex"}
    IN  IF md # {} THEN CHOOSE b \in md : TRUE
        ELSE IF own # {} THEN CHOOSE b \in own : TRUE
        ELSE NoBinding

\* The rows of series_sources with a (source_name, source_id)
BindingHit(name, sourceId) ==
    {b \in bindings : b.source_name = name /\ b.source_id = sourceId}

\* The unique index on (source_name, source_id)
BindingKeyPresent(name, sourceId) == BindingHit(name, sourceId) # {}

\* prisma.seriesSource.upsert on (source_name, source_id), as the client may
\* run it: a read of the row, then an update of the row found or an insert.
\* found: what the read saw. "ok", or the error of an insert that meets a row
\* created since the read.
UpsertOutcomeNoIndex(found, row) == "ok"
UpsertOutcome(found, row) ==
    IF ~found /\ BindingKeyPresent(row.source_name, row.source_id)
    THEN UniqueConstraintError
    ELSE "ok"

\* update: { series_id: seriesId } on the row found, or create
Upserted(found, row) ==
    IF found
    THEN {IF b \in BindingHit(row.source_name, row.source_id)
          THEN [b EXCEPT !.series_id = row.series_id]
          ELSE b : b \in bindings}
    ELSE bindings \cup {row}

\* The row an upsert returns
UpsertResult(found, row) ==
    IF found /\ BindingKeyPresent(row.source_name, row.source_id)
    THEN [(CHOOSE b \in BindingHit(row.source_name, row.source_id) : TRUE)
            EXCEPT !.series_id = row.series_id]
    ELSE row

\* currentCount === 3 and every chapter of the series (deleted or not) has a
\* placeholder title
IsDummy(p) ==
    /\ sync[p].currentCount = 3
    /\ \A c \in chapters : c.series_id = sync[p].sid => c.title \in DummyTitles

\* currentCount > 0 && !isDummy && !hasOrphanedChapters: nothing to sync
NothingToSyncNever(p) == FALSE
NothingToSync(p) ==
    /\ sync[p].currentCount > 0
    /\ ~IsDummy(p)
    /\ ~(sync[p].currentCount > 0 /\ sync[p].sourceCount = 0)

\* syncChapters: the scraped chapters stored for the series, each with its
\* chapter_source.
SyncedChapters(sid, scraped) ==
    {c \in chapters : ~(c.series_id = sid /\ c.no \in scraped)}
    \cup {Chapter(sid, n, "Chapter", 1) : n \in scraped}

\* The call starts for a series (the route has validated the id as a UUID, so
\* the lock id is a number).
SyncStart(p, sid) ==
    /\ sync[p].pc = "idle"
    /\ \A q \in SyncIds : SyncStartsBefore(q, p) => sync[q].pc # "idle"
    /\ sync' = [sync EXCEPT ![p].pc = "lock", ![p].sid = sid]
    /\ UNCHANGED <<locks, chapters, bindings, attach, ingestVars, alertVars, auxVars>>

\* The call has returned to the route: its locals are gone.
Returned(p) ==
    [sync[p] EXCEPT !.pc = "done", !.currentCount = 0, !.sourceCount = 0,
                    !.syncSource = NoBinding, !.scraped = {}, !.found = FALSE]

\* An exception inside the inner try: the finally block runs next, then the
\* outer catch logs it.
ThrowsPastFinally(p) == [Returned(p) EXCEPT !.failed = TRUE]
Throws(p) == [sync[p] EXCEPT !.pc = "unlock", !.failed = TRUE]

\* What the caller sees of an error: the outer catch and the .catch of the
\* unlock query log it and end it.
RethrownAsIs(failed) == failed
Rethrown(failed) == FALSE

\* !lockAcquired || lockAcquired.length === 0
\*   || !lockAcquired[0]?.pg_try_advisory_lock
LockRefusedNever(granted) == FALSE
LockRefused(granted) == ~granted

\* The lock query on connection c, and the return when the lock is refused
\* or the query fails (outer catch).
TryLock(p, c, down) ==
    /\ sync[p].pc = "lock"
    /\ LET key == LockId(sync[p].sid)
           met == \E q \in SyncIds \ {p} :
                      InLockedSection(q) /\ sync[q].sid = sync[p].sid
           hit == \E q \in SyncIds \ {p} :
                      /\ InLockedSection(q) /\ sync[q].sid # sync[p].sid
                      /\ LockId(sync[q].sid) = key
           granted == PgTryAdvisoryLockGrants(key, c)
           synced == \E q \in SyncIds \ {p} :
                        /\ sync[q].pc = "done" /\ sync[q].sid = sync[p].sid
                        /\ sync[q].syncs = 1 /\ ~sync[q].failed
       IN  IF down
           THEN /\ locks' = locks
                /\ sync' = [sync EXCEPT ![p] =
                              [Returned(p) EXCEPT !.contended = met,
                                                  !.collided = hit,
                                                  !.failed = TRUE,
                                                  !.raised = Rethrown(TRUE)]]
           ELSE /\ locks' = IF granted THEN PgTryAdvisoryLock(key, c) ELSE locks
                /\ sync' = [sync EXCEPT ![p] =
                              IF LockRefused(granted)
                              THEN [Returned(p) EXCEPT !.contended = met,
                                                       !.collided = hit]
                              ELSE [@ EXCEPT !.pc = "counts",
                                             !.contended = met,
                                             !.collided = hit,
                                             !.acquired = granted,
                                             !.afterSync = synced]]
    /\ UNCHANGED <<chapters, bindings, attach, ingestVars, alertVars, auxVars>>

\* Promise.all of prisma.chapter.count and prisma.chapterSource.count
CountChapters(p, down) ==
    /\ sync[p].pc = "counts"
    /\ sync' = [sync EXCEPT ![p] =
                  IF down THEN Throws(p)
                  ELSE [@ EXCEPT !.pc = "series",
                                 !.currentCount = CurrentCount(sync[p].sid),
                                 !.sourceCount = SourceCount(sync[p].sid)]]
    /\ UNCHANGED <<locks, chapters, bindings, attach, ingestVars, alertVars, auxVars>>

\* prisma.series.findUnique with its sources, and the choice of syncSource
ReadSeries(p, down) ==
    /\ sync[p].pc = "series"
    /\ sync' = [sync EXCEPT ![p] =
                  IF down THEN Throws(p)
                  ELSE IF SyncSourceOf(sync[p].sid) = NoBinding
                  THEN [@ EXCEPT !.pc = "upsert"]
                  ELSE [@ EXCEPT !.pc = "decide", !.syncSource = SyncSourceOf(sync[p].sid)]]
    /\ UNCHANGED <<locks, chapters, bindings, attach, ingestVars, alertVars, auxVars>>

\* The series has no source and a mangadex_id: the upsert of the binding
\* reads the row of ('mangadex', mangadex_id).
UpsertFind(p, down) ==
    /\ sync[p].pc = "upsert"
    /\ sync' = [sync EXCEPT ![p] =
                  IF down THEN Throws(p)
                  ELSE [@ EXCEPT !.pc = "upsertWrite",
                                 !.found = BindingKeyPresent("mangadex",
                                               MangadexIdOf(sync[p].sid))]]
    /\ UNCHANGED <<locks, chapters, bindings, attach, ingestVars, alertVars, auxVars>>

\* The upsert writes: the row found is moved to the series, or the row is
\* created; an error ends the call through the finally block.
UpsertBinding(p, down) ==
    /\ sync[p].pc = "upsertWrite"
    /\ LET row == CreatedBinding(p, sync[p].sid, MangadexIdOf(sync[p].sid))
           out == IF down THEN StorageError ELSE UpsertOutcome(sync[p].found, row)
       IN  IF out # "ok"
           THEN /\ sync' = [sync EXCEPT ![p] =
                              [Throws(p) EXCEPT !.found = FALSE,
                                                !.conflict = (out = UniqueConstraintError)]]
                /\ bindings' = bindings
           ELSE /\ bindings' = Upserted(sync[p].found, row)
                /\ sync' = [sync EXCEPT ![p].pc = "decide",
                                        ![p].found = FALSE,
                                        ![p].syncSource = UpsertResult(sync[p].found, row)]
    /\ UNCHANGED <<locks, chapters, attach, ingestVars, alertVars, auxVars>>

\* getSourceFromUrl(source_url) for a MangaDex url: the route compares its
\* result with 'MangaDex', the sync writes 'mangadex'
AttachSourceNames == {"mangadex", "MangaDex"}

\* The names that have a scraper in scrapers
Scrapers == {"mangadex"}

\* POST /api/series/[id]/sources for series sid with the url of manga m1:
\* its upsert reads the row of the key.
AttachFind(sid, name, down) ==
    /\ attach.pc = "idle"
    /\ attach' = IF down THEN [attach EXCEPT !.pc = "done", !.failed = TRUE]
                 ELSE [attach EXCEPT !.pc = "write", !.sid = sid,
                                     !.source_name = name,
                                     !.found = BindingKeyPresent(name, "m1")]
    /\ UNCHANGED <<locks, chapters, bindings, sync, ingestVars, alertVars, auxVars>>

\* The upsert of the attach writes; an error is answered by handleApiError.
AttachWrite(down) ==
    /\ attach.pc = "write"
    /\ LET row == [CreatedBinding("attach", attach.sid, "m1")
                     EXCEPT !.source_name = attach.source_name]
           out == IF down THEN StorageError ELSE UpsertOutcome(attach.found, row)
       IN  /\ bindings' = IF out = "ok" THEN Upserted(attach.found, row) ELSE bindings
           /\ attach' = [attach EXCEPT !.pc = "done", !.found = FALSE,
                                       !.failed = (out # "ok"),
                                       !.conflict = (out = UniqueConstraintError)]
    /\ UNCHANGED <<locks, chapters, sync, ingestVars, alertVars, auxVars>>

\* The placeholder test (its findMany when currentCount is 3) and the early
\* return when the series needs no sync.
Decide(p, down) ==
    /\ sync[p].pc = "decide"
    /\ sync' = [sync EXCEPT ![p] =
                  IF down /\ sync[p].currentCount = 3 THEN Throws(p)
                  ELSE IF NothingToSync(p) THEN [@ EXCEPT !.pc = "unlock"]
                  ELSE IF sync[p].syncSource.source_name \notin Scrapers
                  THEN [@ EXCEPT !.pc = "unlock"]
                  ELSE [@ EXCEPT !.pc = "scrape"]]
    /\ UNCHANGED <<locks, chapters, bindings, attach, ingestVars, alertVars, auxVars>>

\* scrapers[source_name].scrapeSeries(source_id): the chapters, or an error
ScrapeSeries(p) ==
    /\ sync[p].pc = "scrape"
    /\ \/ \E got \in ScrapeResults :
            sync' = [sync EXCEPT ![p].scrapes = @ + 1,
                                 ![p].scraped = got,
                                 ![p].pc = IF got # {} THEN "sync" ELSE "unlock"]
       \/ sync' = [sync EXCEPT ![p] = [Throws(p) EXCEPT !.scrapes = @ + 1]]
    /\ UNCHANGED <<locks, chapters, bindings, attach, ingestVars, alertVars, auxVars>>

\* syncChapters(seriesId, source_id, source_name, scraped.chapters)
SyncChapters(p, down) ==
    /\ sync[p].pc = "sync"
    /\ IF down
       THEN /\ sync' = [sync EXCEPT ![p] = [Throws(p) EXCEPT !.syncs = @ + 1]]
            /\ chapters' = chapters
       ELSE /\ chapters' = SyncedChapters(sync[p].sid, sync[p].scraped)
            /\ sync' = [sync EXCEPT ![p].pc = "unlock", ![p].syncs = @ + 1]
    /\ UNCHANGED <<locks, bindings, attach, ingestVars, alertVars, auxVars>>

\* finally: the unlock query on connection c (a failure of the query is
\* logged), then the return, through the outer catch after an exception.
Unlock(p, c, down) ==
    /\ sync[p].pc = "unlock"
    /\ locks' = IF down THEN locks ELSE PgAdvisoryUnlock(LockId(sync[p].sid), c)
    /\ sync' = [sync EXCEPT ![p] =
                  [Returned(p) EXCEPT !.unlocks = @ + 1,
                                      !.unlockFailed = down,
                                      !.raised = Rethrown(down)
                                                 \/ Rethrown(sync[p].failed)]]
    /\ UNCHANGED <<chapters, bindings, attach, ingestVars, alertVars, auxVars>>

SyncNext ==
    \/ \E p \in SyncIds, sid \in Series : SyncStart(p, sid)
    \/ \E p \in SyncIds, c \in Conns, down \in BOOLEAN : TryLock(p, c, down)
    \/ \E p \in SyncIds, down \in BOOLEAN : CountChapters(p, down)
    \/ \E p \in SyncIds, down \in BOOLEAN : ReadSeries(p, down)
    \/ \E p \in SyncIds, down \in BOOLEAN : UpsertFind(p, down)
    \/ \E p \in SyncIds, down \in BOOLEAN : UpsertBinding(p, down)
    \/ \E sid \in Series, name \in AttachSourceNames, down \in BOOLEAN :
          AttachFind(sid, name, down)
    \/ \E down \in BOOLEAN : AttachWrite(down)
    \/ \E p \in SyncIds, down \in BOOLEAN : Decide(p, down)
    \/ \E p \in SyncIds : ScrapeSeries(p)
    \/ \E p \in SyncIds, down \in BOOLEAN : SyncChapters(p, down)
    \/ \E p \in SyncIds, c \in Conns, down \in BOOLEAN : Unlock(p, c, down)

\* Calls for two series that share a lock key, with no attach request
CollisionNext ==
    \/ \E p \in SyncIds, sid \in CollidingSeries : SyncStart(p, sid)
    \/ \E p \in SyncIds, c \in Conns, down \in BOOLEAN : TryLock(p, c, down)
    \/ \E p \in SyncIds, down \in BOOLEAN : CountChapters(p, down)
    \/ \E p \in SyncIds, down \in BOOLEAN : ReadSeries(p, down)
    \/ \E p \in SyncIds, down \in BOOLEAN : UpsertFind(p, down)
    \/ \E p \in SyncIds, down \in BOOLEAN : UpsertBinding(p, down)
    \/ \E p \in SyncIds, down \in BOOLEAN : Decide(p, down)
    \/ \E p \in SyncIds : ScrapeSeries(p)
    \/ \E p \in SyncIds, down \in BOOLEAN : SyncChapters(p, down)
    \/ \E p \in SyncIds, c \in Conns, down \in BOOLEAN : Unlock(p, c, down)

\* ================================================================= alerting
\* DLQAlertingService of lib/monitoring.
\* alertCooldownMs = 5 * 60 * 1000
alertCooldownMs == 300000
\* thresholds = { warning: 50, error: 200, critical: 500 }
WarningThreshold == 50
ErrorThreshold == 200
CriticalThreshold == 500

\* The clock advances at most MaxTicks times.
MaxTicks == 2
\* Date.now() when the process starts, in ms since the epoch
StartClock == 1
ClockSteps == {1, alertCooldownMs - 1}

AlertIds == {"a1", "a2"}
\* The calls are named in the order they are made.
AlertCalledBefore(a) == {b \in AlertIds : b = "a1" /\ a = "a2"}
\* the handler functions
HandlerIds == {"h1", "h2"}
\* the registerHandler calls, named in the order they are made
RegIds == {"u1", "u2"}
RegisteredBefore(u) == {v \in RegIds : v = "u1" /\ u = "u2"}
\* an unregister function is called at most MaxUnregisterCalls times
MaxUnregisterCalls == 2

AlertTypes == {"dlq_threshold", "dlq_critical", "source_failure"}
\* the types given to a direct sendAlert
DirectTypes == {"dlq_critical", "source_failure"}
\* alert.entityId, "undefined" when not given
EntityIds == {"undefined", "global", "e1"}
DlqCounts ==
    {WarningThreshold - 1, WarningThreshold, ErrorThreshold - 1, ErrorThreshold,
     CriticalThreshold - 1, CriticalThreshold}

\* `${alert.type}:${alert.entityId || 'global'}`
AlertKey(type, entityId) ==
    <<type, IF entityId = "undefined" THEN "global" ELSE entityId>>
AlertKeys == {AlertKey(t, e) : t \in AlertTypes, e \in EntityIds}

\* lastAlert && now - lastAlert < this.alertCooldownMs
InCooldownNever(lastAlert, t) == FALSE
InCooldown(lastAlert, t) == lastAlert # 0 /\ t - lastAlert < alertCooldownMs

NoAlert == [type |-> "none", entityId |-> "undefined", severity |-> "none"]

\* The alert checkDLQThresholds sends for a count, NoAlert below the warning
\* threshold.
ThresholdAlertAbove(dlqCount) ==
    IF dlqCount > CriticalThreshold
    THEN [type |-> "dlq_critical", entityId |-> "undefined", severity |-> "critical"]
    ELSE IF dlqCount > ErrorThreshold
    THEN [type |-> "dlq_threshold", entityId |-> "undefined", severity |-> "error"]
    ELSE IF dlqCount > WarningThreshold
    THEN [type |-> "dlq_threshold", entityId |-> "undefined", severity |-> "warning"]
    ELSE NoAlert
ThresholdAlert(dlqCount) ==
    IF dlqCount >= CriticalThreshold
    THEN [type |-> "dlq_critical", entityId |-> "undefined", severity |-> "critical"]
    ELSE IF dlqCount >= ErrorThreshold
    THEN [type |-> "dlq_threshold", entityId |-> "undefined", severity |-> "error"]
    ELSE IF dlqCount >= WarningThreshold
    THEN [type |-> "dlq_threshold", entityId |-> "undefined", severity |-> "warning"]
    ELSE NoAlert

IdleAlertCall ==
    [pc |-> "idle", alert |-> NoAlert, idx |-> 0,
     \* history: the count given to checkDLQThresholds (-1: a direct
     \* sendAlert), the time of the call, the handlers invoked
     count |-> -1, at |-> 0, invoked |-> <<>>,
     \* history: a handler it invoked threw, handlers changed while it was in
     \* its handler loop, it raised to its caller
     threw |-> FALSE, touched |-> FALSE, raised |-> FALSE,
     \* history, kept while the loop runs: the handlers when it started
     atStart |-> <<>>]

\* A registerHandler call not made yet
NoRegistration == [handler |-> "none", unregisterCalls |-> 0]

\* this.handlers.indexOf(handler), from 1; 0 when absent (-1 in the code)
IndexOf(hs, h) ==
    IF \E i \in 1..Len(hs) : hs[i] = h
    THEN CHOOSE i \in 1..Len(hs) : hs[i] = h /\ \A j \in 1..(i - 1) : hs[j] # h
    ELSE 0

\* this.handlers.splice(index, 1)
Splice(hs, index) ==
    [i \in 1..(Len(hs) - 1) |-> IF i < index THEN hs[i] ELSE hs[i + 1]]

\* The body of the function registerHandler returns
UnregisteredNothing(hs, h) == hs
Unregistered(hs, h) ==
    IF IndexOf(hs, h) > 0 THEN Splice(hs, IndexOf(hs, h)) ELSE hs

\* The calls in their handler loop see handlers change
Touched ==
    [a \in AlertIds |->
        IF alertCall[a].pc = "handlers"
        THEN [alertCall[a] EXCEPT !.touched = TRUE]
        ELSE alertCall[a]]

\* try { await handler(alert) } catch (error) { console.error(...) }: whether
\* the error of a handler leaves the loop
HandlerErrorRaisedAsIs(threw) == threw
HandlerErrorRaised(threw) == FALSE

\* The service as constructed
AlertAtRest ==
    /\ clock = [now |-> StartClock, ticks |-> 0]
    /\ handlers = <<>>
    /\ registrations = [u \in RegIds |-> NoRegistration]
    /\ lastAlertTime = [k \in AlertKeys |-> 0]
    /\ alertCall = [a \in AlertIds |-> IdleAlertCall]
    /\ dispatched = {}

\* The service when alerts start to arrive: no handler, or one registered
AlertInit ==
    /\ clock = [now |-> StartClock, ticks |-> 0]
    /\ \/ handlers = <<>> /\ registrations = [u \in RegIds |-> NoRegistration]
       \/ /\ handlers = <<"h1">>
          /\ registrations = [u \in RegIds |->
                                 IF u = "u1" THEN [NoRegistration EXCEPT !.handler = "h1"]
                                 ELSE NoRegistration]
    /\ lastAlertTime = [k \in AlertKeys |-> 0]
    /\ alertCall = [a \in AlertIds |-> IdleAlertCall]
    /\ dispatched = {}

\* Time passes.
ClockAdvance(d) ==
    /\ clock.ticks < MaxTicks
    /\ clock' = [now |-> clock.now + d, ticks |-> clock.ticks + 1]
    /\ UNCHANGED <<handlers, lastAlertTime, alertCall, dispatched, registrations, ingestVars, syncVars, auxVars>>

\* registerHandler: handlers.push(handler); u names the function returned
RegisterHandler(u, h) ==
    /\ registrations[u] = NoRegistration
    /\ \A v \in RegisteredBefore(u) : registrations[v] # NoRegistration
    /\ handlers' = Append(handlers, h)
    /\ registrations' = [registrations EXCEPT ![u].handler = h]
    /\ alertCall' = Touched
    /\ UNCHANGED <<clock, lastAlertTime, dispatched, ingestVars, syncVars, auxVars>>

\* A call of the function that registerHandler call u returned
Unregister(u) ==
    /\ registrations[u] # NoRegistration
    /\ registrations[u].unregisterCalls < MaxUnregisterCalls
    /\ handlers' = Unregistered(handlers, registrations[u].handler)
    /\ registrations' = [registrations EXCEPT ![u].unregisterCalls = @ + 1]
    /\ alertCall' = IF handlers' # handlers THEN Touched ELSE alertCall
    /\ UNCHANGED <<clock, lastAlertTime, dispatched, ingestVars, syncVars, auxVars>>

\* sendAlert up to its first await: the cooldown test, lastAlertTime.set and
\* the log line; the handler loop follows.
SendAlertFrom(a, alert, dlqCount) ==
    LET key == AlertKey(alert.type, alert.entityId)
        called == [alertCall[a] EXCEPT !.alert = alert, !.count = dlqCount,
                                       !.at = clock.now]
    IN  IF alert = NoAlert \/ InCooldown(lastAlertTime[key], clock.now)
        THEN /\ alertCall' = [alertCall EXCEPT ![a] = [called EXCEPT !.pc = "done"]]
             /\ UNCHANGED <<lastAlertTime, dispatched>>
        ELSE /\ alertCall' = [alertCall EXCEPT ![a] = [called EXCEPT !.pc = "handlers",
                                                                   !.atStart = handlers]]
             /\ lastAlertTime' = [lastAlertTime EXCEPT ![key] = clock.now]
             /\ dispatched' = dispatched \cup
                   {[call |-> a, type |-> alert.type, entityId |-> alert.entityId,
                     severity |-> alert.severity, time |-> clock.now]}

\* sendAlert called directly
SendAlert(a, alert) ==
    /\ alertCall[a].pc = "idle"
    /\ \A b \in AlertCalledBefore(a) : alertCall[b].pc # "idle"
    /\ SendAlertFrom(a, alert, -1)
    /\ UNCHANGED <<clock, handlers, registrations, ingestVars, syncVars, auxVars>>

\* checkDLQThresholds(dlqCount) with the default thresholds
CheckDLQThresholds(a, dlqCount) ==
    /\ alertCall[a].pc = "idle"
    /\ \A b \in AlertCalledBefore(a) : alertCall[b].pc # "idle"
    /\ SendAlertFrom(a, ThresholdAlert(dlqCount), dlqCount)
    /\ UNCHANGED <<clock, handlers, registrations, ingestVars, syncVars, auxVars>>

\* One turn of for (const handler of this.handlers): await handler(alert) in
\* a try/catch (the handler may throw), or the end of the loop.
HandlerTurn(a, throws) ==
    /\ alertCall[a].pc = "handlers"
    /\ throws => alertCall[a].idx < Len(handlers)
    /\ alertCall' = [alertCall EXCEPT ![a] =
                       IF @.idx < Len(handlers)
                       THEN IF HandlerErrorRaised(throws)
                            THEN [@ EXCEPT !.pc = "done", !.idx = 0, !.atStart = <<>>,
                                           !.threw = TRUE, !.raised = TRUE,
                                           !.invoked = Append(@, handlers[alertCall[a].idx + 1])]
                            ELSE [@ EXCEPT !.idx = @ + 1,
                                           !.threw = @ \/ throws,
                                           !.invoked = Append(@, handlers[alertCall[a].idx + 1])]
                       ELSE [@ EXCEPT !.pc = "done", !.idx = 0, !.atStart = <<>>]]
    /\ UNCHANGED <<clock, handlers, lastAlertTime, dispatched, registrations, ingestVars, syncVars, auxVars>>

\* Alerts over time, with the handlers registered at the start
AlertNext ==
    \/ \E d \in ClockSteps : ClockAdvance(d)
    \/ \E a \in AlertIds, t \in DirectTypes, e \in EntityIds :
          SendAlert(a, [type |-> t, entityId |-> e, severity |-> "error"])
    \/ \E a \in AlertIds, n \in DlqCounts : CheckDLQThresholds(a, n)
    \/ \E a \in AlertIds, throws \in BOOLEAN : HandlerTurn(a, throws)

\* Alerts while handlers are registered and unregistered, at one time
HandlerNext ==
    \/ \E u \in RegIds, h \in HandlerIds : RegisterHandler(u, h)
    \/ \E u \in RegIds : Unregister(u)
    \/ \E a \in AlertIds, t \in DirectTypes :
          SendAlert(a, [type |-> t, entityId |-> "e1", severity |-> "error"])
    \/ \E a \in AlertIds, n \in {ErrorThreshold - 1, CriticalThreshold} :
          CheckDLQThresholds(a, n)
    \/ \E a \in AlertIds, throws \in BOOLEAN : HandlerTurn(a, throws)

\* ====================================================== the batches of a run
\* The loop of ingestMangaDexChapters over the observations fetched, by
\* counts: n observations fetched, i the loop index, started and finished the
\* observations whose callback has started and has settled.
IdleBatch == [pc |-> "fetch", n |-> 0, i |-> 0, started |-> 0, finished |-> 0]

\* chapters.slice(i, i + BATCH_SIZE): the index after its last observation
SliceEndAll(i, n) == n
SliceEnd(i, n) == Min(i + BATCH_SIZE, n)

\* await Promise.all(...): every callback catches its errors, so the promise
\* resolves when every observation of the batch has settled.
AllSettledAny(started, finished) == TRUE
AllSettled(started, finished) == finished = started

\* getLatestChapters(Math.min(limit, 100)) answers n observations
BatchFetch(n) ==
    /\ batch.pc = "fetch"
    /\ batch' = [batch EXCEPT !.pc = "loop", !.n = n]
    /\ UNCHANGED <<rank, rate, moreVars, ingestVars, syncVars, alertVars>>

\* for (let i = 0; i < chapters.length; ...): batch.map starts the callback
\* of every observation of the slice
BatchStart ==
    /\ batch.pc = "loop"
    /\ batch.i < batch.n
    /\ batch' = [batch EXCEPT !.pc = "await", !.started = SliceEnd(batch.i, batch.n)]
    /\ UNCHANGED <<rank, rate, moreVars, ingestVars, syncVars, alertVars>>

\* One observation in flight settles (created, skipped or its error caught)
ObservationSettles ==
    /\ batch.pc = "await"
    /\ batch.finished < batch.started
    /\ batch' = [batch EXCEPT !.finished = @ + 1]
    /\ UNCHANGED <<rank, rate, moreVars, ingestVars, syncVars, alertVars>>

\* The await returns: i += BATCH_SIZE
BatchAwaited ==
    /\ batch.pc = "await"
    /\ AllSettled(batch.started, batch.finished)
    /\ batch' = [batch EXCEPT !.pc = "loop", !.i = @ + BATCH_SIZE]
    /\ UNCHANGED <<rank, rate, moreVars, ingestVars, syncVars, alertVars>>

\* The loop ends and the results are returned
BatchReturn ==
    /\ batch.pc = "loop"
    /\ batch.i >= batch.n
    /\ batch' = [batch EXCEPT !.pc = "done"]
    /\ UNCHANGED <<rank, rate, moreVars, ingestVars, syncVars, alertVars>>

BatchInit == batch = IdleBatch

BatchNext ==
    \/ \E n \in 0..MangaDexMaxLimit : BatchFetch(n)
    \/ BatchStart
    \/ ObservationSettles
    \/ BatchAwaited
    \/ BatchReturn

\* ============================================================ source ranking
\* The chapter sources a listing may hold: id, source name, trust score (in
\* tenths)
RankedSources ==
    { [id |-> 1, source_name |-> "mangadex", trust_score |-> 9],
      [id |-> 2, source_name |-> "mangapark", trust_score |-> 9],
      [id |-> 3, source_name |-> "comick", trust_score |-> 5],
      [id |-> 4, source_name |-> "mangadex", trust_score |-> 5] }
SourceNames == {x.source_name : x \in RankedSources}

\* a chapter has at most MaxSources sources
MaxSources == 3

\* The position of a source name in ascending order
NameOrder(name) ==
    CASE name = "comick" -> 1
      [] name = "mangadex" -> 2
      [] name = "mangapark" -> 3
      [] OTHER -> 0

NoSource == [id |-> 0, source_name |-> "none", trust_score |-> 0]
NoPreferences == [series |-> "none", global |-> "none"]

\* The lists of at most n distinct sources
SourceLists(n) ==
    UNION {{l \in [1..k -> RankedSources] :
               \A i, j \in 1..k : i # j => l[i] # l[j]} : k \in 0..n}

IdleRank ==
    [pc |-> "idle", sources |-> <<>>, preferences |-> NoPreferences,
     sortedSources |-> <<>>, topSource |-> NoSource]

\* The source the caller prefers: the preference for the series, else the
\* global one, else none
Preferred(preferences) ==
    IF preferences.series # "none" THEN preferences.series ELSE preferences.global

\* The comparator of the ranking: a goes before b
RanksBefore(a, b, preferences) ==
    LET pa == a.source_name = Preferred(preferences)
        pb == b.source_name = Preferred(preferences)
    IN  IF pa # pb THEN pa
        ELSE IF a.trust_score # b.trust_score THEN a.trust_score > b.trust_score
        ELSE NameOrder(a.source_name) < NameOrder(b.source_name)

\* x put into a ranked list, after the sources it does not go before
RECURSIVE Inserted(_, _, _)
Inserted(x, l, preferences) ==
    IF l = <<>> THEN <<x>>
    ELSE IF RanksBefore(x, Head(l), preferences) THEN <<x>> \o l
    ELSE <<Head(l)>> \o Inserted(x, Tail(l), preferences)

\* sortSourcesWithPreferences(sources, preferences): a stable sort of a copy
RECURSIVE SortSourcesWithPreferences(_, _)
SortSourcesWithPreferences(sources, preferences) ==
    IF sources = <<>> THEN <<>>
    ELSE Inserted(sources[Len(sources)],
                  SortSourcesWithPreferences(SubSeq(sources, 1, Len(sources) - 1),
                                             preferences),
                  preferences)

\* sortedSources[0] || sources[0]
TopSourceLast(sortedSources, sources) ==
    IF Len(sortedSources) > 0 THEN sortedSources[Len(sortedSources)] ELSE NoSource
TopSource(sortedSources, sources) ==
    IF Len(sortedSources) > 0 THEN sortedSources[1]
    ELSE IF Len(sources) > 0 THEN sources[1]
    ELSE NoSource

\* A chapter of the listing with its sources and the preferences of the user
\* (none for an anonymous request)
RankInit ==
    \E l \in SourceLists(MaxSources), ps, pg \in SourceNames \cup {"none"} :
        rank = [IdleRank EXCEPT !.pc = "sort", !.sources = l,
                                !.preferences = [series |-> ps, global |-> pg]]

\* const sortedSources = sortSourcesWithPreferences(sources, sourcePreferences)
SortSources ==
    /\ rank.pc = "sort"
    /\ rank' = [rank EXCEPT !.pc = "format",
                            !.sortedSources =
                                SortSourcesWithPreferences(rank.sources, rank.preferences)]
    /\ UNCHANGED <<batch, rate, moreVars, ingestVars, syncVars, alertVars>>

\* The chapter as returned: its ranked sources, and the representative
FormatChapter ==
    /\ rank.pc = "format"
    /\ rank' = [rank EXCEPT !.pc = "done",
                            !.topSource = TopSource(rank.sortedSources, rank.sources)]
    /\ UNCHANGED <<batch, rate, moreVars, ingestVars, syncVars, alertVars>>

RankNext ==
    \/ SortSources
    \/ FormatChapter

\* ============================================================= rate limiting
\* BoundedRateLimitStore and checkRateLimit of the middleware.
\* cleanupInterval = 60000
cleanupInterval == 60000
\* const windowMs = 60000
windowMs == 60000
\* the capacity given to the store (10000 in the middleware)
maxEntries == 2
\* the limit of the tier of the requests (10, 30 or 120 in the middleware)
limit == 2
\* at most MaxRequests requests are made, the clock advances at most
\* MaxRateTicks times
MaxRequests == 6
MaxRateTicks == 2
\* Date.now() when the middleware module is loaded
RateStartClock == 1
RateClockSteps == {1, windowMs}
\* `${tier}:${ip}`
RateKeys == {"ip1", "ip2", "ip3"}

NoRecord == [key |-> "none", count |-> 0, resetTime |-> 0]
NoWindow == [resetTime |-> 0, allowed |-> 0]

\* store: the Map in insertion order. windows (history): for each key, the
\* reset time of the window its last allowed request fell in, and the
\* requests allowed in that window.
IdleRate ==
    [store |-> <<>>, lastCleanup |-> RateStartClock, now |-> RateStartClock,
     ticks |-> 0, requests |-> 0, windows |-> [k \in RateKeys |-> NoWindow]]

\* The entries of a store without those at the positions in gone
Without(store, gone) ==
    LET kept == {i \in 1..Len(store) : i \notin gone}
        Nth(n) == CHOOSE i \in kept : Cardinality({j \in kept : j < i}) = n - 1
    IN  [n \in 1..Cardinality(kept) |-> store[Nth(n)]]

\* The first entry with the least resetTime (0 for an empty store)
Oldest(store) ==
    IF store = <<>> THEN 0
    ELSE CHOOSE i \in 1..Len(store) :
            /\ \A j \in 1..Len(store) : store[i].resetTime <= store[j].resetTime
            /\ \A j \in 1..(i - 1) : store[j].resetTime > store[i].resetTime

\* The store without its n oldest entries
RECURSIVE WithoutOldest(_, _)
WithoutOldest(store, n) ==
    IF n <= 0 \/ store = <<>> THEN store
    ELSE WithoutOldest(Without(store, {Oldest(store)}), n - 1)

\* cleanup(): st is [store, lastCleanup]
Cleanup(st, now) ==
    IF now - st.lastCleanup < cleanupInterval THEN st
    ELSE LET live == Without(st.store,
                             {i \in 1..Len(st.store) : now > st.store[i].resetTime})
         IN  [store |-> WithoutOldest(live, Len(live) - maxEntries),
              lastCleanup |-> now]

\* get(key)
Get(store, key) ==
    IF \E i \in 1..Len(store) : store[i].key = key
    THEN store[CHOOSE i \in 1..Len(store) : store[i].key = key]
    ELSE NoRecord

\* this.store.set(key, value): a key that is present keeps its position
MapSet(store, value) ==
    IF \E i \in 1..Len(store) : store[i].key = value.key
    THEN [i \in 1..Len(store) |-> IF store[i].key = value.key THEN value ELSE store[i]]
    ELSE Append(store, value)

\* set(key, value)
SetNoEvict(st, value, now) ==
    [store |-> MapSet(st.store, value), lastCleanup |-> st.lastCleanup]
Set(st, value, now) ==
    LET cleaned == IF Len(st.store) >= maxEntries THEN Cleanup(st, now) ELSE st
        room == IF Len(cleaned.store) >= maxEntries
                THEN Without(cleaned.store, {Oldest(cleaned.store)})
                ELSE cleaned.store
    IN  [store |-> MapSet(room, value), lastCleanup |-> cleaned.lastCleanup]

\* The record checkRateLimit writes for a request
NextRecord(existing, key, now) ==
    IF existing = NoRecord \/ now > existing.resetTime
    THEN [key |-> key, count |-> 1, resetTime |-> now + windowMs]
    ELSE [existing EXCEPT !.count = @ + 1]

\* allowed: true for a new record, newCount <= limit otherwise
Allowed(existing, now) ==
    \/ existing = NoRecord
    \/ now > existing.resetTime
    \/ existing.count + 1 <= limit

\* The requests allowed in the window of a key, after a request at now
Counted(window, allowed, now) ==
    IF ~allowed THEN window
    ELSE IF window = NoWindow \/ now > window.resetTime
    THEN [resetTime |-> now + windowMs, allowed |-> 1]
    ELSE [window EXCEPT !.allowed = @ + 1]

RateInit == rate = IdleRate

\* Time passes.
RateTick(d) ==
    /\ rate.ticks < MaxRateTicks
    /\ rate' = [rate EXCEPT !.now = @ + d, !.ticks = @ + 1]
    /\ UNCHANGED <<batch, rank, moreVars, ingestVars, syncVars, alertVars>>

\* checkRateLimit(key, limit, windowMs): it has no await, so it runs as one
\* step
CheckRateLimit(key) ==
    /\ rate.requests < MaxRequests
    /\ LET now == rate.now
           triggered == Cleanup([store |-> rate.store,
                                 lastCleanup |-> rate.lastCleanup], now)
           existing == Get(triggered.store, key)
           after == Set(triggered, NextRecord(existing, key, now), now)
       IN  rate' = [rate EXCEPT
                      !.store = after.store,
                      !.lastCleanup = after.lastCleanup,
                      !.requests = @ + 1,
                      !.windows[key] = Counted(@, Allowed(existing, now), now)]
    /\ UNCHANGED <<batch, rank, moreVars, ingestVars, syncVars, alertVars>>

RateNext ==
    \/ \E d \in RateClockSteps : RateTick(d)
    \/ \E key \in RateKeys : CheckRateLimit(key)

\* ================================================= the in-memory fallback cache
\* MockInMemoryCache: a Map from key to { value, expiresAt }, read against
\* Date.now().
CacheKeys == {"k1", "k2"}
CacheValues == {"v1", "v2"}
TtlSeconds == {1, 2}
MsPerSecond == 1000
CacheClockSteps == {1, MsPerSecond}
MaxCacheTicks == 2

NoEntry == [value |-> "none", expiresAt |-> 0]
\* history: the last set of a key that no delete followed
NoWrite == [value |-> "none", at |-> 0, ttl |-> 0]
NoOp == [op |-> "none", key |-> "k1", result |-> "void"]

IdleCache ==
    [store |-> [k \in CacheKeys |-> NoEntry], now |-> 0, ticks |-> 0,
     \* the last operation and what it returned, until the clock moves
     last |-> NoOp,
     written |-> [k \in CacheKeys |-> NoWrite]]

\* Date.now() > entry.expiresAt
ExpiredAtExpiry(now, entry) == now >= entry.expiresAt
Expired(now, entry) == now > entry.expiresAt

\* jest.advanceTimersByTime(d)
CacheTick(d) ==
    /\ cache.ticks < MaxCacheTicks
    /\ cache' = [cache EXCEPT !.now = @ + d, !.ticks = @ + 1, !.last = NoOp]
    /\ UNCHANGED <<listing, bulk, batch, rank, rate, ingestVars, syncVars, alertVars>>

\* set(key, value, ttlSeconds)
CacheSet(key, value, ttlSeconds) ==
    /\ cache' = [cache EXCEPT
                   !.store[key] = [value |-> value,
                                   expiresAt |-> cache.now + ttlSeconds * MsPerSecond],
                   !.written[key] = [value |-> value, at |-> cache.now,
                                     ttl |-> ttlSeconds],
                   !.last = [op |-> "set", key |-> key, result |-> "void"]]
    /\ UNCHANGED <<listing, bulk, batch, rank, rate, ingestVars, syncVars, alertVars>>

\* get(key)
CacheGet(key) ==
    /\ LET entry == cache.store[key]
       IN  IF entry = NoEntry
           THEN cache' = [cache EXCEPT
                            !.last = [op |-> "get", key |-> key, result |-> "null"]]
           ELSE IF Expired(cache.now, entry)
           THEN cache' = [cache EXCEPT
                            !.store[key] = NoEntry,
                            !.last = [op |-> "get", key |-> key, result |-> "null"]]
           ELSE cache' = [cache EXCEPT
                            !.last = [op |-> "get", key |-> key,
                                      result |-> entry.value]]
    /\ UNCHANGED <<listing, bulk, batch, rank, rate, ingestVars, syncVars, alertVars>>

\* has(key)
CacheHas(key) ==
    /\ LET entry == cache.store[key]
       IN  IF entry = NoEntry
           THEN cache' = [cache EXCEPT
                            !.last = [op |-> "has", key |-> key, result |-> FALSE]]
           ELSE IF Expired(cache.now, entry)
           THEN cache' = [cache EXCEPT
                            !.store[key] = NoEntry,
                            !.last = [op |-> "has", key |-> key, result |-> FALSE]]
           ELSE cache' = [cache EXCEPT
                            !.last = [op |-> "has", key |-> key, result |-> TRUE]]
    /\ UNCHANGED <<listing, bulk, batch, rank, rate, ingestVars, syncVars, alertVars>>

\* delete(key): Map.delete tells whether the key was there
CacheDelete(key) ==
    /\ cache' = [cache EXCEPT
                   !.store[key] = NoEntry,
                   !.written[key] = NoWrite,
                   !.last = [op |-> "delete", key |-> key,
                             result |-> cache.store[key] # NoEntry]]
    /\ UNCHANGED <<listing, bulk, batch, rank, rate, ingestVars, syncVars, alertVars>>

CacheNext ==
    \/ \E d \in CacheClockSteps : CacheTick(d)
    \/ \E key \in CacheKeys, value \in CacheValues, ttl \in TtlSeconds :
          CacheSet(key, value, ttl)
    \/ \E key \in CacheKeys : CacheGet(key)
    \/ \E key \in CacheKeys : CacheHas(key)
    \/ \E key \in CacheKeys : CacheDelete(key)

\* ===================================================== the chapter listing
\* One client of GET /api/series/[id]/chapters, by counts: stored is the
\* number of chapters of the series in the database, which the on-demand sync
\* and the ingest workers add to.
Pages == {1, 2}
MaxStored == 2
MaxListingRequests == 3

IdleListing ==
    [pc |-> "idle", stored |-> 0, requests |-> 0, page |-> 1,
     total |-> 0, status |-> "none", result |-> 0,
     \* performOnDemandSync as called by this request
     syncState |-> "none",
     \* history of the request: calls of performOnDemandSync, calls of
     \* fetchChapters, the total of the first fetch, a fetch made while the
     \* sync was running
     syncCalls |-> 0, queries |-> 0, initialTotal |-> 0, early |-> FALSE]

\* await performOnDemandSync(seriesId): the handler goes on when it returned
SyncNotAwaited(state) == TRUE
SyncAwaited(state) == state = "returned"

\* GET up to the first fetchChapters: the rate limit, the id and the page
ListingGet(page, allowed, validId) ==
    /\ listing.pc \in {"idle", "responded"}
    /\ listing.syncState # "running"
    /\ listing.requests < MaxListingRequests
    /\ LET started == [IdleListing EXCEPT !.stored = listing.stored,
                                          !.requests = listing.requests + 1,
                                          !.page = page]
       IN  listing' =
              IF ~allowed
              THEN [started EXCEPT !.pc = "responded", !.status = "rate_limited"]
              ELSE IF ~validId
              THEN [started EXCEPT !.pc = "responded", !.status = "invalid"]
              ELSE [started EXCEPT !.pc = "fetched", !.total = listing.stored,
                                   !.initialTotal = listing.stored,
                                   !.queries = 1]
    /\ UNCHANGED <<cache, bulk, batch, rank, rate, ingestVars, syncVars, alertVars>>

\* if (total === 0 && page === 1): the call of performOnDemandSync
ListingDecide ==
    /\ listing.pc = "fetched"
    /\ listing' = IF listing.total = 0 /\ listing.page = 1
                  THEN [listing EXCEPT !.pc = "syncing", !.syncState = "running",
                                       !.syncCalls = @ + 1]
                  ELSE [listing EXCEPT !.pc = "respond"]
    /\ UNCHANGED <<cache, bulk, batch, rank, rate, ingestVars, syncVars, alertVars>>

\* performOnDemandSync stores n chapters (none when it returns early or the
\* scrape is empty) and returns; it catches every error.
OnDemandSyncReturns(n) ==
    /\ listing.syncState = "running"
    /\ listing.stored + n <= MaxStored
    /\ listing' = [listing EXCEPT !.stored = @ + n, !.syncState = "returned"]
    /\ UNCHANGED <<cache, bulk, batch, rank, rate, ingestVars, syncVars, alertVars>>

\* the second fetchChapters, total = refreshed.total
ListingRefetch ==
    /\ listing.pc = "syncing"
    /\ SyncAwaited(listing.syncState)
    /\ listing' = [listing EXCEPT !.pc = "respond", !.total = listing.stored,
                                  !.queries = @ + 1,
                                  !.early = listing.syncState # "returned"]
    /\ UNCHANGED <<cache, bulk, batch, rank, rate, ingestVars, syncVars, alertVars>>

\* the response with the total
ListingRespond ==
    /\ listing.pc = "respond"
    /\ listing' = [listing EXCEPT !.pc = "responded", !.status = "ok",
                                  !.result = listing.total]
    /\ UNCHANGED <<cache, bulk, batch, rank, rate, ingestVars, syncVars, alertVars>>

\* a worker stores a chapter of the series
ChapterIngested ==
    /\ listing.stored < MaxStored
    /\ listing' = [listing EXCEPT !.stored = @ + 1]
    /\ UNCHANGED <<cache, bulk, batch, rank, rate, ingestVars, syncVars, alertVars>>

ListingNext ==
    \/ \E page \in Pages, allowed \in BOOLEAN, validId \in BOOLEAN :
          ListingGet(page, allowed, validId)
    \/ ListingDecide
    \/ \E n \in 0..MaxStored : OnDemandSyncReturns(n)
    \/ ListingRefetch
    \/ ListingRespond
    \/ ChapterIngested

\* ================================================ the bulk library update
\* PATCH /api/library/bulk of one user: the library entries of the user, the
\* activities logged for them and their xp, counted in units of
\* XP_SERIES_COMPLETED.
EntryIds == {"e1", "e2"}
\* ids a request may name: the entries of the user and one that is not theirs
UpdateIds == EntryIds \cup {"e9"}
Statuses == {"reading", "completed", "dropped"}
SeriesOfEntry == [e \in EntryIds |-> IF e = "e1" THEN "s1" ELSE "s2"]
MaxUpdates == 2
MaxPatches == 3

Updates ==
    UNION {[1..n -> [id : UpdateIds, status : Statuses]] : n \in 1..MaxUpdates}

IdleBulk ==
    [entries |-> [e \in EntryIds |-> "reading"],
     \* activities of type series_completed by series, of type status_updated
     completed |-> [x \in Series |-> 0], statusUpdated |-> 0,
     xpGains |-> 0, patches |-> 0]

\* the loop over updates: the status of each entry after tx.libraryEntry.update
RECURSIVE Updated(_, _)
Updated(entries, updates) ==
    IF updates = <<>> THEN entries
    ELSE LET u == Head(updates)
         IN  Updated(IF u.id \in EntryIds
                     THEN [entries EXCEPT ![u.id] = u.status]
                     ELSE entries,
                     Tail(updates))

\* completionsToProcess: the updates to 'completed' of an entry whose status
\* in currentEntriesMap, read before the loop, is not 'completed'
CompletionsToProcess(current, updates) ==
    SelectSeq(updates, LAMBDA u : /\ u.id \in EntryIds
                                  /\ u.status = "completed"
                                  /\ current[u.id] # "completed")

\* statusUpdatesToProcess: the other updates that change the status read
StatusUpdatesToProcess(current, updates) ==
    SelectSeq(updates, LAMBDA u : /\ u.id \in EntryIds
                                  /\ ~(u.status = "completed" /\ current[u.id] # "completed")
                                  /\ u.status # current[u.id])

\* newCompletions: those whose series has no series_completed activity yet
NewCompletions(completed, completions) ==
    SelectSeq(completions, LAMBDA u : completed[SeriesOfEntry[u.id]] = 0)

\* The transaction of one PATCH
BulkPatch(updates) ==
    /\ bulk.patches < MaxPatches
    /\ LET current == bulk.entries
           completions == CompletionsToProcess(current, updates)
           newCompletions == NewCompletions(bulk.completed, completions)
       IN  bulk' = [bulk EXCEPT
                      !.entries = Updated(current, updates),
                      !.xpGains = @ + Len(newCompletions),
                      !.completed =
                          [x \in Series |->
                             @[x] + Len(SelectSeq(newCompletions,
                                           LAMBDA u : SeriesOfEntry[u.id] = x))],
                      !.statusUpdated =
                          @ + Len(StatusUpdatesToProcess(current, updates)),
                      !.patches = @ + 1]
    /\ UNCHANGED <<cache, listing, batch, rank, rate, ingestVars, syncVars, alertVars>>

BulkNext == \E updates \in Updates : BulkPatch(updates)

\* ========================================================== specifications
\* The rest of the system while one part is looked at: the tables as
\* deployed, no call in progress.
IngestAtRest ==
    /\ series = [s \in Series |-> [last |-> Null, deleted |-> FALSE]]
    /\ prior = [s \in Series |-> Null]
    /\ advances = [s \in Series |-> {}]
    /\ events = {}
    /\ ingestRuns = [r \in RunIds |-> NoRow]
    /\ run = [r \in RunIds |-> IdleRun]

MoreAtRest ==
    /\ cache = IdleCache
    /\ listing = IdleListing
    /\ bulk = IdleBulk

AuxAtRest ==
    /\ batch = IdleBatch
    /\ rank = IdleRank
    /\ rate = IdleRate
    /\ MoreAtRest

SyncAtRest ==
    /\ locks = [k \in LockIds |-> Free]
    /\ chapters = {}
    /\ bindings = {MangadexBinding(x) : x \in Series}
    /\ sync = [p \in SyncIds |-> IdleSync]
    /\ attach = IdleAttach

\* The feed ingest processor.
Init == IngestInit /\ SyncAtRest /\ AlertAtRest /\ AuxAtRest
Next == IngestNext
Spec == Init /\ [][Next]_vars

\* The on-demand sync, on the database as the ingest left it.
SyncInitAll == SyncInit /\ IngestAtRest /\ AlertAtRest /\ AuxAtRest
SyncSpec == SyncInitAll /\ [][SyncNext]_vars

\* The on-demand sync of two series that share a lock key, neither of them
\* with a chapter yet.
CollisionInit ==
    /\ locks = [k \in LockIds |-> Free]
    /\ chapters = {}
    /\ \E b \in SUBSET {MangadexBinding(x) : x \in CollidingSeries} : bindings = b
    /\ sync = [p \in SyncIds |-> IdleSync]
    /\ attach = IdleAttach
CollisionInitAll == CollisionInit /\ IngestAtRest /\ AlertAtRest /\ AuxAtRest
CollisionSpec == CollisionInitAll /\ [][CollisionNext]_vars

\* The DLQ alerting service.
AlertInitAll == AlertInit /\ IngestAtRest /\ SyncAtRest /\ AuxAtRest
AlertSpec == AlertInitAll /\ [][AlertNext]_vars

\* The handler registrations of the alerting service.
HandlerInitAll == AlertAtRest /\ IngestAtRest /\ SyncAtRest /\ AuxAtRest
HandlerSpec == HandlerInitAll /\ [][HandlerNext]_vars

\* The ranking of the sources of a listed chapter.
RankInitAll ==
    /\ RankInit /\ batch = IdleBatch /\ rate = IdleRate /\ MoreAtRest
    /\ IngestAtRest /\ SyncAtRest /\ AlertAtRest
RankSpec == RankInitAll /\ [][RankNext]_vars

\* The rate limiter of the middleware.
RateInitAll ==
    /\ RateInit /\ batch = IdleBatch /\ rank = IdleRank /\ MoreAtRest
    /\ IngestAtRest /\ SyncAtRest /\ AlertAtRest
RateSpec == RateInitAll /\ [][RateNext]_vars

\* The batch loop of one ingest run.
BatchInitAll ==
    /\ BatchInit /\ rank = IdleRank /\ rate = IdleRate /\ MoreAtRest
    /\ IngestAtRest /\ SyncAtRest /\ AlertAtRest
BatchSpec == BatchInitAll /\ [][BatchNext]_vars

\* The in-memory fallback cache.
CacheInitAll ==
    /\ cache = IdleCache /\ listing = IdleListing /\ bulk = IdleBulk
    /\ batch = IdleBatch /\ rank = IdleRank /\ rate = IdleRate
    /\ IngestAtRest /\ SyncAtRest /\ AlertAtRest
CacheSpec == CacheInitAll /\ [][CacheNext]_vars

\* The chapter listing.
ListingInitAll ==
    /\ listing = IdleListing /\ cache = IdleCache /\ bulk = IdleBulk
    /\ batch = IdleBatch /\ rank = IdleRank /\ rate = IdleRate
    /\ IngestAtRest /\ SyncAtRest /\ AlertAtRest
ListingSpec == ListingInitAll /\ [][ListingNext]_vars

\* The bulk library update.
BulkInitAll ==
    /\ bulk = IdleBulk /\ cache = IdleCache /\ listing = IdleListing
    /\ batch = IdleBatch /\ rank = IdleRank /\ rate = IdleRate
    /\ IngestAtRest /\ SyncAtRest /\ AlertAtRest
BulkSpec == BulkInitAll /\ [][BulkNext]_vars

\* ================================================================= claims
\* ----------------------------------------------------- claims on the ingest
Items(r) == 1..Len(run[r].items)

Tagged(r, tag) == {i \in Items(r) : tag \in run[r].items[i].tags}

\* The run's counters are the numbers of its observations counted so.
CountersMatch(r) ==
    /\ run[r].res.events_created = Cardinality(Tagged(r, "created"))
    /\ run[r].res.events_skipped = Cardinality(Tagged(r, "skipped"))
    /\ run[r].res.errors = Cardinality(Tagged(r, "error"))
    /\ run[r].res.series_updated = Cardinality(Tagged(r, "updated"))

\* Runs a and b both processed the same observation of the same source to
\* the end, and the storage layer failed neither.
SameObservation(a, i, b, j) ==
    /\ a # b
    /\ run[a].source = run[b].source
    /\ i \in Items(a) /\ j \in Items(b)
    /\ run[a].items[i].obs = run[b].items[j].obs
    /\ run[a].items[i].sid # "none" /\ run[b].items[j].sid # "none"
    /\ run[a].items[i].pc = "done" /\ run[b].items[j].pc = "done"
    /\ ~run[a].items[i].fault /\ ~run[b].items[j].fault

KeyOf(r, i) ==
    <<run[r].items[i].sid, ChapterNumber(run[r].items[i].obs), run[r].source,
      run[r].items[i].obs.id>>

RowsWithKey(k) == {e \in events : EventKey(e) = k}

\* C1: an observation processed by a run that started after another run had
\* finished processing the same observation leaves exactly one event row of
\* that key, and the later run counts it in events_skipped only.
C1_SecondRunSkips ==
    \A a, b \in RunIds : \A i, j \in 1..MaxFetch :
        (SameObservation(a, i, b, j) /\ a \in run[b].startedAfter)
        => /\ Cardinality(RowsWithKey(KeyOf(b, j))) = 1
           /\ run[b].items[j].tags = {"skipped"}
           /\ CountersMatch(b)

C1_Witness ==
    \E a, b \in RunIds : \E i, j \in 1..MaxFetch :
        /\ SameObservation(a, i, b, j) /\ a \in run[b].startedAfter
        /\ "created" \in run[a].items[i].tags
        /\ run[b].pc = "done" /\ run[b].res.events_skipped = 1

\* C2: the watermark of a non-deleted series equals the maximum of the
\* candidates of all updates executed on it and its prior value (null
\* counting as the epoch), whatever the order of the updates.
C2_WatermarkIsMax ==
    \A s \in Series :
        (~series[s].deleted /\ advances[s] # {})
        => series[s].last =
             SetMax(advances[s] \cup {IF prior[s] = Null THEN Epoch ELSE prior[s]})

C2_Witness ==
    \E s \in Series :
        /\ ~series[s].deleted
        /\ Cardinality(advances[s]) >= 2
        /\ \A r \in RunIds : run[r].pc = "done" /\ Tagged(r, "updated") # {}

\* C3: no step lowers a watermark that is set, or resets it to null.
C3_WatermarkMonotonic ==
    [][\A s \in Series :
          series[s].last # Null => series'[s].last >= series[s].last]_vars

C3_Witness ==
    \E s \in Series : prior[s] # Null /\ series[s].last > prior[s]

\* Runs a and b overlapped: neither had finished when the other started.
Overlapped(a, b) == a \notin run[b].startedAfter /\ b \notin run[a].startedAfter

\* C4: of two overlapping runs of one source that processed the same
\* observation, one counts it created and the other skipped, neither counts
\* an error, and one event row of that key exists.
C4_ConcurrentRunsOneCreates ==
    \A a, b \in RunIds : \A i, j \in 1..MaxFetch :
        (SameObservation(a, i, b, j) /\ Overlapped(a, b))
        => /\ Cardinality(RowsWithKey(KeyOf(a, i))) = 1
           /\ \/ "created" \in run[a].items[i].tags /\ run[b].items[j].tags = {"skipped"}
              \/ "created" \in run[b].items[j].tags /\ run[a].items[i].tags = {"skipped"}
           /\ "error" \notin run[a].items[i].tags \cup run[b].items[j].tags
           /\ CountersMatch(a) /\ CountersMatch(b)

C4_Witness ==
    \E a, b \in RunIds : \E i, j \in 1..MaxFetch :
        /\ SameObservation(a, i, b, j) /\ Overlapped(a, b)
        /\ run[a].pc = "done" /\ run[b].pc = "done"
        /\ StartsBefore(a, b) /\ "created" \in run[b].items[j].tags

\* C5: a run whose queue-health check saw the queues overloaded returns the
\* paused result with all counters zero, and has created no run row, made no
\* adapter call and processed no observation.
C5_BackpressureGate ==
    \A r \in RunIds :
        run[r].sawOverload
        => /\ run[r].pc = "done" /\ run[r].paused /\ ~run[r].raised
           /\ run[r].res = ZeroResult /\ run[r].runId = ""
           /\ ingestRuns[r] = NoRow
           /\ run[r].fetchCalls = 0
           /\ run[r].items = <<>>

C5_Witness ==
    \E r, q \in RunIds :
        /\ run[r].sawOverload /\ run[r].paused
        /\ ingestRuns[q].status = "completed" /\ events # {}

\* C8: a run whose adapter call was answered 429 does not raise and is
\* finalized completed, with rate_limit_hits = 1 and events_fetched = 0
\* (nothing was retrieved before the signal).
C8_RateLimitCompletes ==
    \A r \in RunIds :
        run[r].throttled
        => /\ ~run[r].raised
           /\ ingestRuns[r].status # "failed"
           /\ run[r].pc = "done"
              => /\ ingestRuns[r].status = "completed"
                 /\ ingestRuns[r].res.rate_limit_hits = 1
                 /\ ingestRuns[r].res.events_fetched = 0
                 /\ ingestRuns[r].res.errors = 0

C8_Witness ==
    \E r \in RunIds :
        run[r].throttled /\ run[r].pc = "done" /\ ingestRuns[r].status = "completed"

\* Run r is finished, it fetched exactly one observation, of series s whose
\* watermark was null, the storage layer did not fail it, and no other run
\* has fetched anything.
SingleObservationRun(r, s) ==
    /\ run[r].pc = "done"
    /\ Len(run[r].items) = 1
    /\ run[r].items[1].sid = s
    /\ ~run[r].items[1].fault
    /\ prior[s] = Null
    /\ \A q \in RunIds \ {r} : run[q].items = <<>>

EndToEnd(r, s) ==
    /\ Cardinality(events) = 1
    /\ \E e \in events :
          /\ EventKey(e) = KeyOf(r, 1)
          /\ series[s].last = e.discovered_at
    /\ ingestRuns[r].status = "completed"
    /\ ingestRuns[r].res.events_created = 1
    /\ ingestRuns[r].res.series_updated = 1
    /\ ingestRuns[r].res.errors = 0

\* C10 as stated: for any series with a null watermark and no events.
C10_AsStated ==
    \A r \in RunIds, s \in Series : SingleObservationRun(r, s) => EndToEnd(r, s)

\* C10 (amended): for a series that is not soft-deleted, with a null
\* watermark and no events, a run that fetches exactly one observation of it
\* ends with one event row, the watermark at the event's discovered-at, and a
\* completed run record with events_created = 1, series_updated = 1, errors = 0.
C10_EndToEnd ==
    \A r \in RunIds, s \in Series :
        (SingleObservationRun(r, s) /\ ~series[s].deleted) => EndToEnd(r, s)

C10_Witness ==
    \E r \in RunIds, s \in Series :
        SingleObservationRun(r, s) /\ ~series[s].deleted /\ series[s].last = MaxTime

UnhandledError(r) == run[r].fetchFailed \/ run[r].source = "unknown"

\* C12: for every source, a finished run with an unhandled error has its row
\* failed with the error message and has raised; a row is completed only
\* without such an error.
C12_UnhandledErrorFails ==
    \A r \in RunIds :
        (run[r].pc = "done" /\ ~run[r].paused)
        => /\ UnhandledError(r)
                => /\ ingestRuns[r].status = "failed"
                   /\ ingestRuns[r].error_message # ""
                   /\ run[r].raised
           /\ ingestRuns[r].status = "completed" => ~UnhandledError(r)

C14_NoReleaseLost ==
    (\A r \in RunIds : run[r].pc \in {"idle", "done"})
    => \A e \in events :
          ~series[e.series_id].deleted
          => series[e.series_id].last >= e.discovered_at

\* C15: the insert of an observation whose key is already stored changes
\* neither the events nor any series row, and adds nothing to events_created
\* or series_updated; unless the storage layer fails it, it is counted
\* skipped.
C15_DuplicateChangesNothing ==
    [][\A r \in RunIds : \A i \in 1..MaxFetch :
          ( /\ i \in Items(r)
            /\ run[r].items[i].pc = "create"
            /\ KeyPresent(EventRow(r, i))
            /\ run'[r].items[i] # run[r].items[i] )
          => /\ events' = events
             /\ series' = series
             /\ run'[r].res.events_created = run[r].res.events_created
             /\ run'[r].res.series_updated = run[r].res.series_updated
             /\ ~run'[r].items[i].fault
                  => /\ run'[r].items[i].tags = {"skipped"}
                     /\ run'[r].res.events_skipped = run[r].res.events_skipped + 1
                     /\ run'[r].res.errors = run[r].res.errors]_vars

C15_Witness ==
    \E r \in RunIds : \E i \in 1..MaxFetch :
        /\ i \in Items(r)
        /\ run[r].items[i].sid # "none" /\ ~run[r].items[i].fault
        /\ run[r].items[i].tags = {"skipped"}
        /\ run[r].pc = "done"
        /\ run[r].res.events_created = 0 /\ run[r].res.series_updated = 0
        /\ \E e \in events :
              EventKey(e) = KeyOf(r, i) /\ series[e.series_id].last = e.discovered_at

\* The observation names a manga that no tracked series has as mangadex_id.
UnknownSeries(o) == o.ref # "none" /\ ~\E s \in Series : MangadexIdOf(s) = o.ref

\* C16: the lookup step of an observation of an unknown series, unless the
\* lookup itself fails, ends the observation counted in events_skipped and
\* not in errors, and changes neither the events nor any series row.
C16_UnknownSeriesSkipped ==
    [][\A r \in RunIds : \A i \in 1..MaxFetch :
          ( /\ i \in Items(r)
            /\ run[r].items[i].pc = "find"
            /\ UnknownSeries(run[r].items[i].obs)
            /\ run'[r].items[i] # run[r].items[i]
            /\ ~run'[r].items[i].fault )
          => /\ run'[r].items[i].pc = "done"
             /\ run'[r].items[i].tags = {"skipped"}
             /\ run'[r].res.events_skipped = run[r].res.events_skipped + 1
             /\ run'[r].res.errors = run[r].res.errors
             /\ events' = events
             /\ series' = series]_vars

C16_Witness ==
    \E r \in RunIds : \E i \in 1..MaxFetch :
        /\ i \in Items(r)
        /\ UnknownSeries(run[r].items[i].obs)
        /\ run[r].items[i].tags = {"skipped"} /\ ~run[r].items[i].fault
        /\ run[r].pc = "done" /\ ingestRuns[r].res.events_skipped = 1
        /\ ingestRuns[r].res.errors = 0

\* C17: no step changes the watermark of a soft-deleted series.
C17_SoftDeletedUnchanged ==
    [][\A s \in Series :
          series[s].deleted => series'[s].last = series[s].last]_vars

C17_Witness ==
    \E s \in Series :
        /\ series[s].deleted
        /\ Cardinality(advances[s]) >= 2
        /\ series[s].last = prior[s]

\* ------------------------------------------------- claims on on-demand sync
\* C6: of two concurrent calls for one series only one fetches: a call that
\* asked for the lock while another call for the same series was between its
\* acquire and its unlock makes no scrapeSeries call and returns without
\* error.
C6_OneCallFetches ==
    \A p \in SyncIds :
        sync[p].contended => (sync[p].scrapes = 0 /\ ~sync[p].raised)

\* C7: no two calls for one series are at the same time between a
\* successful pg_try_advisory_lock and their pg_advisory_unlock.
C7_LockExclusive ==
    \A p, q \in SyncIds :
        (p # q /\ sync[p].sid = sync[q].sid)
        => ~(InLockedSection(p) /\ InLockedSection(q))

\* C18: no performOnDemandSync call raises to its caller.
C18_NeverRaises ==
    \A p \in SyncIds : ~sync[p].raised

C18_Witness ==
    \E p, q \in SyncIds :
        /\ sync[p].pc = "done" /\ sync[q].pc = "done"
        /\ sync[p].failed /\ ~sync[p].acquired
        /\ sync[q].failed /\ sync[q].syncs = 1 /\ sync[q].unlockFailed

\* C19: a call that was granted the lock has issued no unlock while it is
\* in the locked section and exactly one when it has returned, whichever
\* way it left the section, and a failing unlock is not raised; a call that
\* was not granted the lock issues none.
C19_UnlockExactlyOnce ==
    \A p \in SyncIds :
        /\ sync[p].acquired
             => /\ InLockedSection(p) => sync[p].unlocks = 0
                /\ sync[p].pc = "done" => sync[p].unlocks = 1
                /\ InLockedSection(p) \/ sync[p].pc = "done"
        /\ ~sync[p].acquired => sync[p].unlocks = 0
        /\ sync[p].unlockFailed => ~sync[p].raised

C19_Witness ==
    \E p, q \in SyncIds :
        /\ sync[p].pc = "done" /\ sync[q].pc = "done"
        /\ sync[p].acquired /\ sync[p].failed /\ sync[p].unlocks = 1
        /\ sync[q].acquired /\ ~sync[q].failed /\ sync[q].syncs = 1
        /\ sync[q].unlocks = 1 /\ sync[q].unlockFailed

\* C20: the advisory lock of a series is free whenever no call for the
\* series is between its acquire and its return.
C20_LockFreeWhenIdle ==
    \A x \in Series :
        (\A p \in SyncIds : sync[p].sid = x => ~InLockedSection(p))
        => locks[LockId(x)] = Free

\* C21: a call whose lock query does not grant the lock returns in that
\* step: it goes from the lock query straight to its return, no row of
\* chapters or series_sources and no lock changes in the step, and the call
\* has made no scrape, no syncChapters and no unlock query; a call that was
\* not granted the lock is never in the locked section.
C21_RefusedLockReturns ==
    [][\A p \in SyncIds :
          /\ (sync[p].pc = "lock" /\ sync'[p].pc # "lock" /\ ~sync'[p].acquired)
               => /\ sync'[p].pc = "done"
                  /\ UNCHANGED <<locks, chapters, bindings>>
          /\ ~sync'[p].acquired
               => /\ sync'[p].pc \in {"idle", "lock", "done"}
                  /\ sync'[p].scrapes = 0
                  /\ sync'[p].syncs = 0
                  /\ sync'[p].unlocks = 0]_vars

C21_Witness ==
    \E p, q \in SyncIds :
        /\ sync[p].pc = "done" /\ ~sync[p].acquired /\ ~sync[p].failed
        /\ sync[p].contended
        /\ InLockedSection(q) /\ sync[q].sid = sync[p].sid /\ sync[q].scrapes = 1

\* The re-check under the lock, on the counts the call has read: no chapter,
\* or the placeholder seed set, or chapters without any chapter_source.
NeedsSync(p) ==
    \/ sync[p].currentCount = 0
    \/ /\ sync[p].currentCount = 3
       /\ \A c \in chapters :
             c.series_id = sync[p].sid => c.title \in DummyTitles
    \/ sync[p].currentCount > 0 /\ sync[p].sourceCount = 0

\* C22: a call reaches the scraper only from its re-check, when the re-check
\* finds that the series needs syncing and a source is bound; the scraper is
\* invoked only from there; a call that was granted the lock after another
\* call had completed a sync of the series invokes no scraper.
C22_ScrapeOnlyWhenNeeded ==
    [][\A p \in SyncIds :
          /\ (sync[p].pc # "scrape" /\ sync'[p].pc = "scrape")
               => /\ sync[p].pc = "decide"
                  /\ NeedsSync(p)
                  /\ sync[p].syncSource # NoBinding
          /\ sync'[p].scrapes # sync[p].scrapes => sync[p].pc = "scrape"
          /\ sync'[p].afterSync => sync'[p].scrapes = 0]_vars

C22_Witness ==
    \E p, q \in SyncIds :
        /\ sync[p].pc = "done" /\ sync[p].syncs = 1 /\ ~sync[p].failed
        /\ sync[q].pc = "done" /\ sync[q].sid = sync[p].sid
        /\ sync[q].afterSync /\ sync[q].acquired /\ ~sync[q].failed
        /\ sync[q].unlocks = 1 /\ sync[q].scrapes = 0

MaxUpdateWatermark(s) ==
    LET created == {e.discovered_at : e \in {x \in events : x.series_id = s}}
    IN  IF created = {} THEN prior[s]
        ELSE SetMax(created \cup {IF prior[s] = Null THEN Epoch ELSE prior[s]})

\* An observation whose event was created and whose UPDATE statement failed
UpdateFailed ==
    \E r \in RunIds : \E i \in Items(r) :
        {"created", "error"} \subseteq run[r].items[i].tags

\* C29: when the runs have ended, the watermark of a series that is not
\* soft-deleted is the one an unconditional atomic max update after every
\* created event would have left, whatever the runs read and in whatever
\* order they ran, unless the UPDATE statement itself failed.
C29_AdvanceIsAtomicMax ==
    ((\A r \in RunIds : run[r].pc \in {"idle", "done"}) /\ ~UpdateFailed)
    => \A s \in Series :
          ~series[s].deleted => series[s].last = MaxUpdateWatermark(s)

\* Both runs have ended; one observation advanced the watermark of a series
\* and another, with a candidate not newer than the value it had read, did
\* not.
C29_Witness ==
    /\ \A r \in RunIds : run[r].pc = "done"
    /\ ~UpdateFailed
    /\ \E s \in Series :
          /\ ~series[s].deleted
          /\ Cardinality({e \in events : e.series_id = s}) >= 2
          /\ series[s].last > (IF prior[s] = Null THEN Epoch ELSE prior[s])
    /\ \E r \in RunIds : \E i \in Items(r) : run[r].items[i].tags = {"created"}
    /\ \E r \in RunIds : \E i \in Items(r) : "updated" \in run[r].items[i].tags

\* C35: in a finalized run whose fetch succeeded, events_created +
\* events_skipped + errors = events_fetched.
C35_CountedOnce ==
    \A r \in RunIds :
        (run[r].pc = "done" /\ run[r].fetchCalls > 0
           /\ ~run[r].throttled /\ ~run[r].fetchFailed /\ ~run[r].raised)
        => ingestRuns[r].res.events_created + ingestRuns[r].res.events_skipped
             + ingestRuns[r].res.errors = ingestRuns[r].res.events_fetched

\* C36: a step that increments series_updated raises the watermark of a
\* series that is not soft-deleted.
C36_UpdatedCountsRaises ==
    [][\A r \in RunIds :
          run'[r].res.series_updated > run[r].res.series_updated
          => \E s \in Series :
                /\ ~series[s].deleted
                /\ series'[s].last # series[s].last
                /\ series[s].last # Null => series'[s].last > series[s].last]_vars

\* ------------------------------------------------- claims on the batch loop
\* C27: at most BATCH_SIZE observations are in flight; the observations of a
\* batch start only when every observation started before has finished, and
\* a batch is the next at most BATCH_SIZE observations in order.
C27_BatchesOfFifty ==
    [][/\ batch'.started - batch'.finished <= BATCH_SIZE
       /\ batch'.started # batch.started
            => /\ batch.finished = batch.started
               /\ batch'.started > batch.started
               /\ batch'.started - batch.started <= BATCH_SIZE
               /\ batch'.started = batch.n
                  \/ batch'.started - batch.started = BATCH_SIZE]_vars

\* The second batch of a run of 100 observations is in flight.
C27_Witness ==
    /\ batch.pc = "await" /\ batch.n = MangaDexMaxLimit
    /\ batch.i = BATCH_SIZE
    /\ batch.started = 2 * BATCH_SIZE /\ batch.finished = BATCH_SIZE + 1

C30_AtMostLimitPerWindow ==
    \A k \in RateKeys : rate.windows[k].allowed <= limit

\* C31: the store never holds more than maxEntries records.
C31_StoreBounded == Len(rate.store) <= maxEntries

\* The store is full and a key that was given a window is no longer in it.
C31_Witness ==
    /\ Len(rate.store) = maxEntries
    /\ \E k \in RateKeys :
          /\ rate.windows[k] # NoWindow
          /\ rate.now <= rate.windows[k].resetTime
          /\ Get(rate.store, k) = NoRecord

\* ------------------------------------------------------ claims on alerting
\* C9: two alerts of one (type, entityId) that passed the cooldown test are
\* at least alertCooldownMs apart; of two checkDLQThresholds calls less than
\* alertCooldownMs apart, both with counts at or above the critical
\* threshold, exactly one dispatches an alert.
C9_AlertCooldown ==
    /\ \A d1, d2 \in dispatched :
          (d1 # d2 /\ d1.type = d2.type /\ d1.entityId = d2.entityId)
          => (d1.time - d2.time >= alertCooldownMs
              \/ d2.time - d1.time >= alertCooldownMs)
    /\ \A a, b \in AlertIds :
          ( /\ a # b
            /\ alertCall[a].pc # "idle" /\ alertCall[b].pc # "idle"
            /\ alertCall[a].count >= CriticalThreshold
            /\ alertCall[b].count >= CriticalThreshold
            /\ alertCall[a].at - alertCall[b].at < alertCooldownMs
            /\ alertCall[b].at - alertCall[a].at < alertCooldownMs
            /\ \A d \in dispatched :
                  (d.type = "dlq_critical" /\ d.call \notin {a, b})
                  => (alertCall[a].at - d.time >= alertCooldownMs
                      /\ alertCall[b].at - d.time >= alertCooldownMs) )
          => Cardinality({d \in dispatched : d.call \in {a, b}}) = 1

C9_Witness ==
    \E a, b \in AlertIds :
        /\ a # b
        /\ alertCall[a].count >= CriticalThreshold
        /\ alertCall[b].count >= CriticalThreshold
        /\ alertCall[a].pc = "done" /\ alertCall[b].pc = "done"
        /\ alertCall[b].at - alertCall[a].at = alertCooldownMs - 1
        /\ Cardinality({d \in dispatched : d.call \in {a, b}}) = 1
        /\ Len(alertCall[a].invoked) = 1

\* C23: no sendAlert or checkDLQThresholds call raises, whatever its handlers
\* throw; a dispatch during which handlers did not change invokes every
\* registered handler, in order, also after a handler has thrown.
C23_HandlerErrorContained ==
    [][\A a \in AlertIds :
          /\ ~alertCall'[a].raised
          /\ (alertCall'[a].pc = "handlers" /\ ~alertCall'[a].touched)
               => alertCall'[a].invoked = SubSeq(handlers', 1, alertCall'[a].idx)
          /\ (alertCall[a].pc = "handlers" /\ alertCall'[a].pc = "done"
                 /\ ~alertCall[a].touched)
               => alertCall'[a].invoked = handlers]_vars

\* A checkDLQThresholds call has returned after both handlers were invoked,
\* one of them throwing.
C23_Witness ==
    \E a \in AlertIds :
        /\ alertCall[a].pc = "done" /\ alertCall[a].count >= WarningThreshold
        /\ alertCall[a].threw /\ ~alertCall[a].touched
        /\ alertCall[a].invoked = <<"h1", "h2">>

\* The severity the thresholds give a count
Band(dlqCount) ==
    IF dlqCount < WarningThreshold THEN "none"
    ELSE IF dlqCount < ErrorThreshold THEN "warning"
    ELSE IF dlqCount < CriticalThreshold THEN "error"
    ELSE "critical"

\* C24: a checkDLQThresholds call hands sendAlert the alert of the band of
\* its count and nothing below the warning threshold; it dispatches at most
\* one alert, of that band.
C24_ThresholdBands ==
    \A a \in AlertIds :
        (alertCall[a].pc # "idle" /\ alertCall[a].count >= 0)
        => LET mine == {d \in dispatched : d.call = a}
           IN  /\ alertCall[a].alert.severity = Band(alertCall[a].count)
               /\ Cardinality(mine) <= 1
               /\ Band(alertCall[a].count) = "none" => mine = {}
               /\ \A d \in mine :
                     /\ d.severity = Band(alertCall[a].count)
                     /\ d.type = IF d.severity = "critical"
                                 THEN "dlq_critical" ELSE "dlq_threshold"

C24_Witness ==
    \E a, b \in AlertIds :
        /\ alertCall[a].pc = "done" /\ alertCall[a].count = ErrorThreshold - 1
        /\ \E d \in dispatched : d.call = a /\ d.severity = "warning"
        /\ alertCall[b].pc = "done" /\ alertCall[b].count = ErrorThreshold
        /\ \E d \in dispatched : d.call = b /\ d.severity = "error"

\* The order of the severities
BandRank(severity) ==
    CASE severity = "warning" -> 1
      [] severity = "error" -> 2
      [] severity = "critical" -> 3
      [] OTHER -> 0

\* C37: a checkDLQThresholds call whose count is in a higher band than the
\* count of an earlier call that dispatched its alert dispatches its alert.
C37_EscalationDispatched ==
    \A a, b \in AlertIds :
        ( /\ a \in AlertCalledBefore(b)
          /\ alertCall[b].pc # "idle"
          /\ alertCall[a].count >= 0 /\ alertCall[b].count >= 0
          /\ \E d \in dispatched : d.call = a
          /\ BandRank(Band(alertCall[b].count)) > BandRank(Band(alertCall[a].count)) )
        => \E d \in dispatched : d.call = b

\* The registrations of a function in handlers
Occurrences(hs, h) == Cardinality({i \in 1..Len(hs) : hs[i] = h})

\* C26: the first call of an unregister function removes one registration of
\* its handler and no other; a later call of it changes nothing.
C26_UnregisterExact ==
    [][\A u \in RegIds :
          registrations'[u].unregisterCalls # registrations[u].unregisterCalls
          => IF registrations[u].unregisterCalls = 0
             THEN \A h \in HandlerIds :
                     Occurrences(handlers', h) =
                        Occurrences(handlers, h)
                          - (IF h = registrations[u].handler THEN 1 ELSE 0)
             ELSE handlers' = handlers]_vars

\* C38: when the handler loop of a dispatched alert ends, every function that
\* was registered when the dispatch started and whose unregister function was
\* never called has been invoked once for each of its registrations at the
\* start, whatever was unregistered while the loop awaited a handler.
C38_EveryHandlerOnce ==
    [][\A a \in AlertIds :
          (alertCall[a].pc = "handlers" /\ alertCall'[a].pc = "done")
          => \A h \in HandlerIds :
                (/\ Occurrences(alertCall[a].atStart, h) > 0
                 /\ \A u \in RegIds :
                       registrations'[u].handler = h
                       => registrations'[u].unregisterCalls = 0)
                => Occurrences(alertCall'[a].invoked, h) =
                      Occurrences(alertCall[a].atStart, h)]_vars

\* C32: a value stored with set is what get returns, and has reports true, up
\* to and at its expiry time; after it get returns null, has returns false and
\* the entry has left the Map; get of a key never set or deleted returns null.
C32_CacheTtl ==
    LET l == cache.last
        w == cache.written[l.key]
        live == w # NoWrite /\ cache.now <= w.at + w.ttl * MsPerSecond
    IN  /\ l.op = "get" => l.result = (IF live THEN w.value ELSE "null")
        /\ l.op = "has" => l.result = live
        /\ (l.op \in {"get", "has"} /\ ~live) => cache.store[l.key] = NoEntry

C32_Witness ==
    LET l == cache.last
        w == cache.written[l.key]
    IN  /\ l.op = "get"
        /\ w # NoWrite
        /\ cache.now = w.at + w.ttl * MsPerSecond
        /\ l.result = w.value
        /\ \E k \in CacheKeys :
              /\ cache.written[k] # NoWrite
              /\ cache.now > cache.written[k].at + cache.written[k].ttl * MsPerSecond

\* C34: a request of the chapter listing calls performOnDemandSync at most
\* once, and only when its first fetch was for page 1 and had a total of zero;
\* it fetches again only once and only after that call has returned, and the
\* total it answers with is the one of its last fetch.
C34_SyncOnceThenRefetch ==
    /\ listing.syncCalls <= 1
    /\ listing.syncCalls = 1 => (listing.page = 1 /\ listing.initialTotal = 0)
    /\ listing.queries <= 1 + listing.syncCalls
    /\ listing.queries = 2 => (listing.syncState = "returned" /\ ~listing.early)
    /\ (listing.pc = "responded" /\ listing.status = "ok")
          => /\ listing.result = listing.total
             /\ listing.queries = 1 + listing.syncCalls
             /\ listing.queries = 1 => listing.result = listing.initialTotal

C34_Witness ==
    /\ listing.pc = "responded"
    /\ listing.status = "ok"
    /\ listing.syncCalls = 1
    /\ listing.queries = 2
    /\ listing.result > 0

\* C40: whatever bulk PATCH requests were made, a series has at most one
\* series_completed activity of the user, and the user gained the completion
\* xp at most once for each series that has one.
C40_CompletionAwardedOnce ==
    /\ \A x \in Series : bulk.completed[x] <= 1
    /\ bulk.xpGains <= Cardinality({x \in Series : bulk.completed[x] > 0})

\* C33: a collision of lock keys costs only time. When no call is in progress
\* and the lock is free, a series whose call was refused the lock because a
\* call for another series with the same key held it has been fetched by
\* some call; no call fetched twice; every chapter stored belongs to a series
\* that a call synced.
C33_CollisionOnlyDelays ==
    /\ \A p \in SyncIds :
          (/\ \A q \in SyncIds : sync[q].pc = "done"
           /\ sync[p].collided /\ ~sync[p].acquired /\ ~sync[p].failed
           /\ locks[LockId(sync[p].sid)] = Free)
          => \E q \in SyncIds : sync[q].sid = sync[p].sid /\ sync[q].scrapes >= 1
    /\ \A p \in SyncIds : sync[p].scrapes <= 1
    /\ \A c \in chapters :
          \E q \in SyncIds : sync[q].sid = c.series_id /\ sync[q].syncs >= 1
====
